---------------------------- MODULE Spec2Model ----------------------------
(***************************************************************************)
(* Motion-classification and arming engine of the MPU drink coaster        *)
(* sketches.  Each sketch is a single-threaded Arduino program: loop()     *)
(* first services at most one HTTP request (server.handleClient()) and     *)
(* then runs its body.  The variable sketch says which program is flashed. *)
(*                                                                         *)
(* Units: time in ms; acceleration in cm/s^2 (0.01 m/s^2); angles in       *)
(* centi-degrees (0.01 deg).                                               *)
(***************************************************************************)
EXTENDS Integers, Sequences, FiniteSets, TLC

VARIABLES
    sketch,   \* which sketch runs on the device
    millis,   \* value of millis(): unsigned, wraps
    clock,    \* observer: ms elapsed since the initial state, never wraps
    pc,       \* "client": about to call server.handleClient(); "body": rest of loop()
    v5,       \* globals of the v5 arming sketch (src/unnamed/part_001, first sketch)
    md1,      \* globals of the tilt and slide sketch (src/motion_detection.ino, first sketch)
    md2,      \* globals of the settings test sketch (src/motion_detection2.ino)
    md3,      \* globals of the coaster sketch (src/motion_detection3.ino)
    ag,       \* globals of the AuraGuard sketch (src/unnamed/part_002)
    md4,      \* globals of the adjustable coaster sketch (src/Motion_Detection4.ino)
    v4,       \* globals of the v4 sketch (src/unnamed/part_001, second sketch)
    tg,       \* globals of the Tap-Guard sketches (v7: src/unnamed/part_000,
              \* v8: src/motion_detection.ino, second sketch)
    ring,     \* globals of the Tap-Guard sketches with an event ring buffer
              \* (v5.1: src/Motion_Detection_Alpha.ino, v6: src/Motion_Detection_Alpha2.ino)
    obs       \* observer record of the running sketch (history the claims speak about)

vars == <<sketch, millis, clock, pc, v5, md1, md2, md3, ag, tg, ring, md4, v4, obs>>

notV5 == <<md1, md2, md3, ag, tg, ring, md4, v4>>      \* globals of the sketches that are not flashed
notMD == <<v5, md2, ag, tg, ring, md4, v4>>
notAG == <<v5, md1, md2, md3, tg, ring, md4, v4>>
notMD2 == <<v5, md1, md3, ag, tg, ring, md4, v4>>
notTG == <<v5, md1, md2, md3, ag, ring, md4, v4>>
notRing == <<v5, md1, md2, md3, ag, tg, md4, v4>>
notSustain == <<v5, md2, ag, tg, ring>>

-----------------------------------------------------------------------------
(* unsigned long arithmetic.  The device counter has 32 bits; TLC integers *)
(* are 32-bit signed, so the counter is kept at MillisBits bits, wide      *)
(* enough for every duration the sketches compare.                         *)
MillisBits == 20
UMOD == 2 ^ MillisBits
UAdd(a, b) == (a + b) % UMOD
USub(a, b) == (a - b + UMOD) % UMOD

(* Time the model lets pass (below UMOD - ARMED_DURATION_MS, so that no     *)
(* compared span reaches UMOD), and loop iterations per specification.     *)
MaxClock == 601000
MaxLoopsFine == 11
MaxLoopsCoarse == 7
BootMillis == 3000     \* millis() when setup() returns
MaxRequests == 2       \* arm / disarm commands in one behaviour
MaxShortSteps == 1     \* loop iterations shorter than the telemetry interval
PreWrap == 100         \* the other initial state: this many ms before millis() wraps

BootTimes == {BootMillis, UMOD - PreWrap}

-----------------------------------------------------------------------------
(* Sensor samples: acceleration (ax, ay, az) in cm/s^2 and gyro z.         *)
Sample(x, y, z, g) == [ax |-> x, ay |-> y, az |-> z, gz |-> g]
Rest == Sample(0, 0, 981, 0)
TiltPose == Sample(0, 103, 975, 0)     \* rolled 6.03 deg: gravity leaks 1.03 m/s^2 into y
LiftPose == Sample(0, 0, 1181, 0)      \* 2 m/s^2 of upward acceleration
SlidePose == Sample(0, 75, 1100, 0)    \* 0.75 m/s^2 horizontal, roll 3.90 deg
TiltOnlyPose == Sample(0, 69, 979, 0)  \* rolled 4.03 deg, 0.69 m/s^2 horizontal

(* atan2(y, x) * 180 / M_PI in centi-degrees, tabulated on the arguments   *)
(* the samples produce (math.atan2 rounded to 0.01 deg).                   *)
atan2_cdeg(y, x) ==
    CASE y = 0 /\ x > 0 -> 0
      [] y = 103 /\ x = 975 -> 603
      [] y = 75 /\ x = 1100 -> 390
      [] y = 69 /\ x = 979 -> 403
      [] y = 100 /\ x = 981 -> 582
      [] y = 10 /\ x = 981 -> 58

(* floor(sqrt(n)) by bisection on lo..hi. *)
RECURSIVE isqrt_between(_, _, _)
isqrt_between(n, lo, hi) ==
    IF lo = hi THEN lo
    ELSE LET mid == (lo + hi + 1) \div 2
         IN IF mid * mid <= n THEN isqrt_between(n, mid, hi)
            ELSE isqrt_between(n, lo, mid - 1)
isqrt(n) == isqrt_between(n, 0, 4096)
Abs(x) == IF x < 0 THEN -x ELSE x

-----------------------------------------------------------------------------
(*                 v5 arming sketch: src/unnamed/part_001                  *)

V5_TILT_THRESHOLD == 400                       \* 4.0 deg
V5_SUSTAINED_TILT_DURATION_MS == 500
V5_SLIDE_THRESHOLD == 70                       \* 0.7 m/s^2
V5_SUSTAINED_SLIDE_DURATION_MS == 1000
V5_LIFT_THRESHOLD == (15 * 980665) \div 100000 \* 0.15 G * 9.80665 m/s^2 = 147.09.. cm/s^2
V5_SUSTAINED_LIFT_DURATION_MS == 400
V5_TELEMETRY_READ_INTERVAL_MS == 50
V5_WEB_MOTION_INDICATOR_DURATION_MS == 3000
ARMED_DURATION_MS == 10 * 60 * 1000

V5Globals ==
    [ systemArmed |-> FALSE, armStartTime_ms |-> 0, timeRemaining_s |-> 0,
      lastMotionTimestamp_ms |-> 0, webShowsMotionActive |-> FALSE,
      ledIndicatesMotion |-> FALSE,
      isSustainedTilt |-> FALSE, isSustainedSlide |-> FALSE, isSustainedLift |-> FALSE,
      lastMotionType |-> "None",
      sustainedTiltStartTime_ms |-> 0, sustainedSlideStartTime_ms |-> 0,
      sustainedLiftStartTime_ms |-> 0,
      lastTelemetryReadTime_ms |-> 0,
      currentAcceleration |-> Rest, currentRoll_deg |-> 0, currentPitch_deg |-> 0,
      currentYaw_deg |-> 0,
      baseRoll_deg |-> 0, basePitch_deg |-> 0, baseAccelZ_ms2 |-> 981 ]

(* Variant: yaw is integrated whether armed or not. *)
V5_processSensorData_AlwaysYaw(st, s) ==
    [st EXCEPT !.currentAcceleration = s,
               !.currentRoll_deg = atan2_cdeg(s.ay, s.az),
               !.currentPitch_deg = atan2_cdeg(-s.ax, isqrt(s.ay * s.ay + s.az * s.az)),
               !.currentYaw_deg = @ + s.gz]

(* processSensorData(): read a sample, derive roll and pitch, integrate    *)
(* yaw (in units of gz * 50 ms) while armed.                               *)
V5_processSensorData(st, s) ==
    [st EXCEPT !.currentAcceleration = s,
               !.currentRoll_deg = atan2_cdeg(s.ay, s.az),
               !.currentPitch_deg = atan2_cdeg(-s.ax, isqrt(s.ay * s.ay + s.az * s.az)),
               !.currentYaw_deg = IF st.systemArmed THEN @ + s.gz ELSE @]

(* The three deviation tests of detectSustainedMotionEvents().             *)
V5_TiltAbove(st) ==
    \/ Abs(st.currentRoll_deg - st.baseRoll_deg) > V5_TILT_THRESHOLD
    \/ Abs(st.currentPitch_deg - st.basePitch_deg) > V5_TILT_THRESHOLD
V5_SlideAbove(st) ==
    LET a == st.currentAcceleration
    IN a.ax * a.ax + a.ay * a.ay > V5_SLIDE_THRESHOLD * V5_SLIDE_THRESHOLD
V5_LiftAbove(st) ==
    Abs(st.currentAcceleration.az - st.baseAccelZ_ms2) > V5_LIFT_THRESHOLD

(* Mutant: the below-threshold branch clears the flag but not the timer.   *)
V5_DetectorBlock_KeepsTimer(above, start, flag, t, dur) ==
    IF above
    THEN LET st0 == IF start = 0 THEN t ELSE start
             fire == USub(t, st0) >= dur /\ ~flag
         IN [start |-> st0, flag |-> (flag \/ fire), fire |-> fire]
    ELSE [start |-> start, flag |-> FALSE, fire |-> FALSE]

(* One detector block: the timer starts when it is 0, the flag is set once *)
(* the timer is old enough, both are cleared at or below the threshold.    *)
V5_DetectorBlock(above, start, flag, t, dur) ==
    IF above
    THEN LET st0 == IF start = 0 THEN t ELSE start
             fire == USub(t, st0) >= dur /\ ~flag
         IN [start |-> st0, flag |-> (flag \/ fire), fire |-> fire]
    ELSE [start |-> 0, flag |-> FALSE, fire |-> FALSE]

V5_detectSustainedMotionEvents(st, t) ==
    IF ~st.systemArmed THEN st
    ELSE
    LET tl == V5_DetectorBlock(V5_TiltAbove(st), st.sustainedTiltStartTime_ms,
                               st.isSustainedTilt, t, V5_SUSTAINED_TILT_DURATION_MS)
        sl == V5_DetectorBlock(V5_SlideAbove(st), st.sustainedSlideStartTime_ms,
                               st.isSustainedSlide, t, V5_SUSTAINED_SLIDE_DURATION_MS)
        lf == V5_DetectorBlock(V5_LiftAbove(st), st.sustainedLiftStartTime_ms,
                               st.isSustainedLift, t, V5_SUSTAINED_LIFT_DURATION_MS)
        motionThisCycle == tl.fire \/ sl.fire \/ lf.fire
    IN [st EXCEPT !.sustainedTiltStartTime_ms = tl.start, !.isSustainedTilt = tl.flag,
                  !.sustainedSlideStartTime_ms = sl.start, !.isSustainedSlide = sl.flag,
                  !.sustainedLiftStartTime_ms = lf.start, !.isSustainedLift = lf.flag,
                  !.lastMotionType = IF lf.fire THEN "LIFT"
                                     ELSE IF sl.fire THEN "SLIDE"
                                     ELSE IF tl.fire THEN "TILT" ELSE @,
                  !.lastMotionTimestamp_ms = IF motionThisCycle THEN t ELSE @]

(* Mutant: the armed duration compared with > instead of >=.               *)
V5_armTimer_Late(st, t) ==
    IF st.systemArmed
    THEN LET expired == USub(t, st.armStartTime_ms) > ARMED_DURATION_MS
             a == IF expired
                  THEN [st EXCEPT !.systemArmed = FALSE, !.isSustainedTilt = FALSE,
                                  !.isSustainedSlide = FALSE, !.isSustainedLift = FALSE,
                                  !.lastMotionType = "None"]
                  ELSE st
         IN [a EXCEPT !.timeRemaining_s =
                USub(ARMED_DURATION_MS, USub(t, st.armStartTime_ms)) \div 1000]
    ELSE [st EXCEPT !.timeRemaining_s = 0]

(* loop(), the armed-duration block. *)
V5_armTimer(st, t) ==
    IF st.systemArmed
    THEN LET expired == USub(t, st.armStartTime_ms) >= ARMED_DURATION_MS
             a == IF expired
                  THEN [st EXCEPT !.systemArmed = FALSE, !.isSustainedTilt = FALSE,
                                  !.isSustainedSlide = FALSE, !.isSustainedLift = FALSE,
                                  !.lastMotionType = "None"]
                  ELSE st
         IN [a EXCEPT !.timeRemaining_s =
                USub(ARMED_DURATION_MS, USub(t, st.armStartTime_ms)) \div 1000]
    ELSE [st EXCEPT !.timeRemaining_s = 0]

V5_updateSystemIndicators(st, t) ==
    LET anyMotionCurrentlyActive ==
            st.isSustainedTilt \/ st.isSustainedSlide \/ st.isSustainedLift
        inWindow == /\ USub(t, st.lastMotionTimestamp_ms) < V5_WEB_MOTION_INDICATOR_DURATION_MS
                    /\ st.lastMotionTimestamp_ms # 0
        web == anyMotionCurrentlyActive \/ inWindow
    IN [st EXCEPT !.webShowsMotionActive = web,
                  !.ledIndicatesMotion = web,
                  !.lastMotionType = IF web THEN @ ELSE "None"]

V5_handleArmSystem(st, t, s) ==
    LET a == V5_processSensorData(
                 [st EXCEPT !.systemArmed = TRUE, !.armStartTime_ms = t,
                            !.timeRemaining_s = ARMED_DURATION_MS \div 1000], s)
    IN [a EXCEPT !.baseRoll_deg = a.currentRoll_deg,
                 !.basePitch_deg = a.currentPitch_deg,
                 !.baseAccelZ_ms2 = a.currentAcceleration.az,
                 !.currentYaw_deg = 0,
                 !.isSustainedTilt = FALSE, !.isSustainedSlide = FALSE,
                 !.isSustainedLift = FALSE,
                 !.lastMotionType = "None",
                 !.lastMotionTimestamp_ms = 0]

V5_handleDisarmSystem(st) ==
    [st EXCEPT !.systemArmed = FALSE,
               !.isSustainedTilt = FALSE, !.isSustainedSlide = FALSE,
               !.isSustainedLift = FALSE,
               !.lastMotionType = "None",
               !.lastMotionTimestamp_ms = 0,
               !.timeRemaining_s = 0]

-----------------------------------------------------------------------------
(*          Tilt and slide sketch: src/motion_detection.ino (first)         *)

MD1_telemetryReadInterval == 50
MD1_WEB_MOTION_VISIBLE_DURATION == 900
MD1_LED_ON_DURATION_AFTER_MOTION == 500
MD1_TILT_CHANGE_DEGREE_THRESHOLD == 50          \* 0.5 deg
MD1_SUSTAINED_TILT_DURATION == 250
MD1_SLIDE_ACCEL_CHANGE_THRESHOLD == 50          \* 0.5 m/s^2
MD1_SUSTAINED_SLIDE_DURATION == 150
MAX_MOTION_LOG_ENTRIES == 20
MIN_INTERVAL_BETWEEN_LOG_ENTRIES == 300

ZeroSample == Sample(0, 0, 0, 0)      \* a zero-initialised sensors_event_t

MD1Globals ==
    [ current_a |-> ZeroSample, current_roll |-> 0, current_pitch |-> 0,
      lastTelemetryReadMillis |-> 0,
      lastMotionDetectedTime |-> 0,
      webPageShowsMotion |-> FALSE, ledShouldBeOn |-> FALSE,
      prev_roll_tilt |-> 0, prev_pitch_tilt |-> 0, firstTiltReading |-> TRUE,
      continuousTiltChangeStartTime |-> 0, deviceIsTiltingSustained |-> FALSE,
      prev_ax_slide |-> 0, prev_ay_slide |-> 0, firstAccelReadingForSlide |-> TRUE,
      continuousSlideStartTime |-> 0, deviceIsSlidingSustained |-> FALSE,
      motionLog |-> << >>, lastTimeEntryAddedToLog |-> 0,
      prevOverallMotionState |-> FALSE ]

MD1_readTelemetryDataAndAngles(st, s) ==
    LET yz_sqrt_sum == isqrt(s.ay * s.ay + s.az * s.az)
    IN [st EXCEPT
          !.current_a = s,
          !.current_roll = IF s.az = 0 /\ s.ay = 0
                           THEN (IF st.firstTiltReading THEN 0 ELSE st.prev_roll_tilt)
                           ELSE atan2_cdeg(s.ay, s.az),
          !.current_pitch = IF yz_sqrt_sum = 0
                            THEN (IF st.firstTiltReading THEN 0 ELSE st.prev_pitch_tilt)
                            ELSE atan2_cdeg(-s.ax, yz_sqrt_sum)]

MD1_checkSustainedTilt(st, ct) ==
    IF st.firstTiltReading
    THEN [st EXCEPT !.prev_roll_tilt = st.current_roll,
                    !.prev_pitch_tilt = st.current_pitch,
                    !.firstTiltReading = FALSE,
                    !.continuousTiltChangeStartTime = 0,
                    !.deviceIsTiltingSustained = FALSE]
    ELSE
    LET dr == Abs(st.current_roll - st.prev_roll_tilt)
        dp == Abs(st.current_pitch - st.prev_pitch_tilt)
        start == IF st.continuousTiltChangeStartTime = 0 THEN ct
                 ELSE st.continuousTiltChangeStartTime
        a == IF dr > MD1_TILT_CHANGE_DEGREE_THRESHOLD \/ dp > MD1_TILT_CHANGE_DEGREE_THRESHOLD
             THEN [st EXCEPT !.continuousTiltChangeStartTime = start,
                             !.deviceIsTiltingSustained =
                                 IF USub(ct, start) >= MD1_SUSTAINED_TILT_DURATION
                                 THEN TRUE ELSE @]
             ELSE [st EXCEPT !.deviceIsTiltingSustained = FALSE,
                             !.continuousTiltChangeStartTime = 0]
    IN [a EXCEPT !.prev_roll_tilt = st.current_roll, !.prev_pitch_tilt = st.current_pitch]

MD1_checkSustainedSlide(st, ct) ==
    IF st.firstAccelReadingForSlide
    THEN [st EXCEPT !.prev_ax_slide = st.current_a.ax,
                    !.prev_ay_slide = st.current_a.ay,
                    !.firstAccelReadingForSlide = FALSE,
                    !.continuousSlideStartTime = 0,
                    !.deviceIsSlidingSustained = FALSE]
    ELSE
    LET dax == Abs(st.current_a.ax - st.prev_ax_slide)
        day == Abs(st.current_a.ay - st.prev_ay_slide)
        start == IF st.continuousSlideStartTime = 0 THEN ct
                 ELSE st.continuousSlideStartTime
        a == IF (dax + day) > MD1_SLIDE_ACCEL_CHANGE_THRESHOLD
             THEN [st EXCEPT !.continuousSlideStartTime = start,
                             !.deviceIsSlidingSustained =
                                 IF USub(ct, start) >= MD1_SUSTAINED_SLIDE_DURATION
                                 THEN TRUE ELSE @]
             ELSE [st EXCEPT !.deviceIsSlidingSustained = FALSE,
                             !.continuousSlideStartTime = 0]
    IN [a EXCEPT !.prev_ax_slide = st.current_a.ax, !.prev_ay_slide = st.current_a.ay]

MD1_LogEntry(st, ts, type) ==
    [timestamp |-> ts, motionType |-> type, accelData |-> st.current_a,
     rollAtDetection |-> st.current_roll, pitchAtDetection |-> st.current_pitch]

(* Mutant: a full log refuses the new entry. *)
MD1_addMotionToLog_DropsNew(st, ts, type) ==
    IF Len(st.motionLog) >= MAX_MOTION_LOG_ENTRIES THEN st
    ELSE [st EXCEPT !.motionLog = Append(@, MD1_LogEntry(st, ts, type))]

MD1_addMotionToLog(st, ts, type) ==
    LET kept == IF Len(st.motionLog) >= MAX_MOTION_LOG_ENTRIES
                THEN Tail(st.motionLog) ELSE st.motionLog
    IN [st EXCEPT !.motionLog = Append(kept, MD1_LogEntry(st, ts, type))]

MD1_motionTypeStr(st) ==
    IF st.deviceIsTiltingSustained /\ st.deviceIsSlidingSustained THEN "Tilt & Slide"
    ELSE IF st.deviceIsTiltingSustained THEN "Tilt"
    ELSE IF st.deviceIsSlidingSustained THEN "Slide"
    ELSE "Motion"

(* Mutant: the debounce comparison is strict. *)
MD1_motionStarted_Strict(st, t) ==
    LET b == [st EXCEPT !.lastMotionDetectedTime = t]
    IN IF USub(t, st.lastTimeEntryAddedToLog) > MIN_INTERVAL_BETWEEN_LOG_ENTRIES
       THEN [MD1_addMotionToLog(b, t, MD1_motionTypeStr(b))
                EXCEPT !.lastTimeEntryAddedToLog = t]
       ELSE b

(* loop(), the branch taken when the overall motion state rises. *)
MD1_motionStarted(st, t) ==
    LET b == [st EXCEPT !.lastMotionDetectedTime = t]
    IN IF USub(t, st.lastTimeEntryAddedToLog) >= MIN_INTERVAL_BETWEEN_LOG_ENTRIES
       THEN [MD1_addMotionToLog(b, t, MD1_motionTypeStr(b))
                EXCEPT !.lastTimeEntryAddedToLog = t]
       ELSE b

MD1_updateMotionDisplayStates(st, ct) ==
    IF st.lastMotionDetectedTime = 0 /\ ~st.deviceIsTiltingSustained
           /\ ~st.deviceIsSlidingSustained
    THEN [st EXCEPT !.webPageShowsMotion = FALSE, !.ledShouldBeOn = FALSE]
    ELSE [st EXCEPT
            !.webPageShowsMotion =
                USub(ct, st.lastMotionDetectedTime) < MD1_WEB_MOTION_VISIBLE_DURATION,
            !.ledShouldBeOn =
                USub(ct, st.lastMotionDetectedTime) < MD1_LED_ON_DURATION_AFTER_MOTION]

(* telemetry part of loop(): the state after the two detectors ran.        *)
MD1_telemetry(st, t, s) ==
    IF USub(t, st.lastTelemetryReadMillis) >= MD1_telemetryReadInterval
    THEN MD1_checkSustainedSlide(
             MD1_checkSustainedTilt(
                 MD1_readTelemetryDataAndAngles(
                     [st EXCEPT !.lastTelemetryReadMillis = t], s), t), t)
    ELSE st

(* the rest of loop() after the telemetry part. *)
MD1_loopTail(a1, t) ==
    LET overallMotionDetected == a1.deviceIsTiltingSustained \/ a1.deviceIsSlidingSustained
        a2 == IF overallMotionDetected /\ ~a1.prevOverallMotionState
              THEN MD1_motionStarted(a1, t) ELSE a1
    IN MD1_updateMotionDisplayStates(
           [a2 EXCEPT !.prevOverallMotionState = overallMotionDetected], t)

-----------------------------------------------------------------------------
(*                 Coaster sketch: src/motion_detection3.ino               *)

MD3_TILT_THRESHOLD == 30                        \* 0.3 deg
MD3_SUSTAINED_TILT_DURATION_MS == 80
MD3_SLIDE_THRESHOLD == 25                       \* 0.25 m/s^2
MD3_SUSTAINED_SLIDE_DURATION_MS == 80
MD3_TELEMETRY_READ_INTERVAL_MS == 50
MD3_WEB_MOTION_INDICATOR_DURATION_MS == 1500
MD3_LED_MOTION_INDICATOR_DURATION_MS == 750
MAX_LOG_ENTRIES == 10
MIN_LOG_INTERVAL_MS == 250

MD3Globals ==
    [ currentAcceleration |-> ZeroSample, currentRoll_deg |-> 0, currentPitch_deg |-> 0,
      lastSignificantRoll |-> 0, lastSignificantPitch |-> 0, lastSignificantSlideX |-> 0,
      lastMotionTimestamp_ms |-> 0,
      webShowsMotionActive |-> FALSE, ledIndicatesMotion |-> FALSE,
      isSustainedTilt |-> FALSE, isSustainedSlide |-> FALSE,
      prevTiltRoll_deg |-> 0, prevTiltPitch_deg |-> 0, firstTiltCheck |-> TRUE,
      sustainedTiltStartTime_ms |-> 0,
      prevSlideAccelX |-> 0, prevSlideAccelY |-> 0, firstSlideCheck |-> TRUE,
      sustainedSlideStartTime_ms |-> 0,
      motionEventLog |-> << >>, lastLogEntryTime_ms |-> 0,
      lastTelemetryReadTime_ms |-> 0 ]

MD3_processSensorData(st, s) ==
    [st EXCEPT !.currentAcceleration = s,
               !.currentRoll_deg = atan2_cdeg(s.ay, s.az),
               !.currentPitch_deg = atan2_cdeg(-s.ax, isqrt(s.ay * s.ay + s.az * s.az))]

(* Mutant: the debounce return does not look at the last-append time.      *)
MD3_addEventToMotionLog_NoDebounce(st, currentTime, ts, type, r, p) ==
    LET kept == IF Len(st.motionEventLog) >= MAX_LOG_ENTRIES
                THEN Tail(st.motionEventLog) ELSE st.motionEventLog
        newEntry == [timestamp_ms |-> ts, motionType |-> type,
                     rollAtDetection_deg |-> r, pitchAtDetection_deg |-> p]
    IN [st EXCEPT !.motionEventLog = Append(kept, newEntry),
                  !.lastLogEntryTime_ms = currentTime]

(* currentTime is the value millis() returns inside the function. *)
MD3_addEventToMotionLog(st, currentTime, ts, type, r, p) ==
    IF USub(currentTime, st.lastLogEntryTime_ms) < MIN_LOG_INTERVAL_MS
           /\ st.motionEventLog # << >>
    THEN st
    ELSE
    LET kept == IF Len(st.motionEventLog) >= MAX_LOG_ENTRIES
                THEN Tail(st.motionEventLog) ELSE st.motionEventLog
        newEntry == [timestamp_ms |-> ts, motionType |-> type,
                     rollAtDetection_deg |-> r, pitchAtDetection_deg |-> p]
    IN [st EXCEPT !.motionEventLog = Append(kept, newEntry),
                  !.lastLogEntryTime_ms = currentTime]

(* detectSustainedMotionEvents(), tilt part; fire: tiltDetectedThisCycle.  *)
MD3_detectTilt(st, currentTime) ==
    LET deltaRoll == Abs(st.currentRoll_deg - st.prevTiltRoll_deg)
        deltaPitch == Abs(st.currentPitch_deg - st.prevTiltPitch_deg)
        rising == /\ st.sustainedTiltStartTime_ms # 0
                  /\ USub(currentTime, st.sustainedTiltStartTime_ms)
                         >= MD3_SUSTAINED_TILT_DURATION_MS
                  /\ ~st.isSustainedTilt
        a == IF st.firstTiltCheck THEN [st EXCEPT !.firstTiltCheck = FALSE]
             ELSE IF deltaRoll > MD3_TILT_THRESHOLD \/ deltaPitch > MD3_TILT_THRESHOLD
             THEN IF st.sustainedTiltStartTime_ms = 0
                  THEN [st EXCEPT !.sustainedTiltStartTime_ms = currentTime]
                  ELSE IF rising
                  THEN MD3_addEventToMotionLog(
                           [st EXCEPT !.isSustainedTilt = TRUE,
                                      !.lastSignificantRoll = st.currentRoll_deg,
                                      !.lastSignificantPitch = st.currentPitch_deg],
                           currentTime, currentTime, "Tilt Detected",
                           st.currentRoll_deg, st.currentPitch_deg)
                  ELSE st
             ELSE [st EXCEPT !.sustainedTiltStartTime_ms = 0, !.isSustainedTilt = FALSE]
    IN [st |-> [a EXCEPT !.prevTiltRoll_deg = st.currentRoll_deg,
                         !.prevTiltPitch_deg = st.currentPitch_deg],
        fire |-> (~st.firstTiltCheck /\ a.isSustainedTilt /\ ~st.isSustainedTilt)]

(* detectSustainedMotionEvents(), slide part; fire: slideDetectedThisCycle. *)
MD3_detectSlide(st, currentTime) ==
    LET x == st.currentAcceleration.ax
        dx == x - st.prevSlideAccelX
        dy == st.currentAcceleration.ay - st.prevSlideAccelY
        \* sqrt(dx^2 + dy^2) > threshold
        above == dx * dx + dy * dy > MD3_SLIDE_THRESHOLD * MD3_SLIDE_THRESHOLD
        rising == /\ st.sustainedSlideStartTime_ms # 0
                  /\ USub(currentTime, st.sustainedSlideStartTime_ms)
                         >= MD3_SUSTAINED_SLIDE_DURATION_MS
                  /\ ~st.isSustainedSlide
        dir == IF 2 * x > 2 * st.prevSlideAccelX + MD3_SLIDE_THRESHOLD THEN 1
               ELSE IF 2 * x < 2 * st.prevSlideAccelX - MD3_SLIDE_THRESHOLD THEN -1
               ELSE 0
        a == IF st.firstSlideCheck THEN [st EXCEPT !.firstSlideCheck = FALSE]
             ELSE IF above
             THEN IF st.sustainedSlideStartTime_ms = 0
                  THEN [st EXCEPT !.sustainedSlideStartTime_ms = currentTime]
                  ELSE IF rising
                  THEN MD3_addEventToMotionLog(
                           [st EXCEPT !.isSustainedSlide = TRUE,
                                      !.lastSignificantSlideX = dir],
                           currentTime, currentTime, "Slide Detected",
                           st.currentRoll_deg, st.currentPitch_deg)
                  ELSE st
             ELSE [st EXCEPT !.sustainedSlideStartTime_ms = 0, !.isSustainedSlide = FALSE]
    IN [st |-> [a EXCEPT !.prevSlideAccelX = st.currentAcceleration.ax,
                         !.prevSlideAccelY = st.currentAcceleration.ay],
        fire |-> (~st.firstSlideCheck /\ a.isSustainedSlide /\ ~st.isSustainedSlide)]

MD3_detectSustainedMotionEvents(st, currentTime) ==
    LET tl == MD3_detectTilt(st, currentTime)
        sl == MD3_detectSlide(tl.st, currentTime)
    IN IF tl.fire \/ sl.fire
       THEN [sl.st EXCEPT !.lastMotionTimestamp_ms = currentTime]
       ELSE sl.st

MD3_updateSystemIndicatorsAndLogging(st, currentTime_ms) ==
    LET since == USub(currentTime_ms, st.lastMotionTimestamp_ms)
        a == IF since < MD3_WEB_MOTION_INDICATOR_DURATION_MS /\ st.lastMotionTimestamp_ms # 0
             THEN [st EXCEPT !.webShowsMotionActive = TRUE]
             ELSE [st EXCEPT !.webShowsMotionActive = FALSE,
                             !.isSustainedTilt = FALSE, !.isSustainedSlide = FALSE,
                             !.lastSignificantRoll = 0, !.lastSignificantPitch = 0,
                             !.lastSignificantSlideX = 0]
    IN [a EXCEPT !.ledIndicatesMotion =
            since < MD3_LED_MOTION_INDICATOR_DURATION_MS /\ st.lastMotionTimestamp_ms # 0]

(* telemetry part of loop(). *)
MD3_telemetry(st, t, s) ==
    IF USub(t, st.lastTelemetryReadTime_ms) >= MD3_TELEMETRY_READ_INTERVAL_MS
    THEN MD3_detectSustainedMotionEvents(
             MD3_processSensorData([st EXCEPT !.lastTelemetryReadTime_ms = t], s), t)
    ELSE st

-----------------------------------------------------------------------------
(*               AuraGuard coaster sketch: src/unnamed/part_002            *)
(* Acceleration magnitudes are in units of 0.00001 G.                      *)

RAW_MOTION_LED_DURATION_MS == 750
ACCEL_READ_INTERVAL_MS == 100
SLOW_MOVE_SAMPLE_COUNT == 5
SLOW_MOVE_THRESHOLD_G == 3500                   \* 0.035 G
SLOW_MOVE_MIN_DURATION_MS == 750
AG_MAX_MOTION_LOG_ENTRIES == 30

(* A String of the log: empty, "HH:MM:SS" (v: second of the day),          *)
(* "<seconds>s (Rel)" (v: hundredths of a second), "NTP Err" or "No Time". *)
Str(k, n) == [kind |-> k, v |-> n]
EmptyString == Str("", 0)

AGGlobals ==
    [ g_isSystemArmed |-> FALSE, g_newRawMotionDetectedByMPU |-> FALSE,
      g_newSlowMoveDetectedBySW |-> FALSE, g_motionEventForWebUI |-> FALSE,
      g_motionLog |-> [i \in 0 .. (AG_MAX_MOTION_LOG_ENTRIES - 1) |-> EmptyString],
      g_motionLogCount |-> 0, g_armingTimeMillis |-> 0, g_ntpTimeSyncd |-> FALSE,
      g_rawMotionLedActiveUntilMs |-> 0,
      g_accelBaselineMagnitude |-> 0,
      g_accelMagnitudeSamples |-> [i \in 0 .. (SLOW_MOVE_SAMPLE_COUNT - 1) |-> 0],
      g_accelSampleIndex |-> 0, g_baselineEstablished |-> FALSE,
      g_lastAccelReadTime |-> 0, g_slowMoveStartTime |-> 0,
      g_potentialSlowMove |-> FALSE,
      statusLed |-> "LOW" ]

(* sqrt(ax^2 + ay^2 + az^2) with the components divided by 9.81 m/s^2. *)
AG_calculateAccelMagnitude(s) ==
    (isqrt(s.ax * s.ax + s.ay * s.ay + s.az * s.az) * 100000) \div 981

AG_updateAccelSamples(st, currentMagnitude) ==
    LET idx == (st.g_accelSampleIndex + 1) % SLOW_MOVE_SAMPLE_COUNT
    IN [st EXCEPT !.g_accelMagnitudeSamples[st.g_accelSampleIndex] = currentMagnitude,
                  !.g_accelSampleIndex = idx,
                  !.g_baselineEstablished = @ \/ idx = 0]

RECURSIVE AG_sumSamples(_, _)
AG_sumSamples(samples, i) ==
    IF i = SLOW_MOVE_SAMPLE_COUNT THEN 0 ELSE samples[i] + AG_sumSamples(samples, i + 1)

(* checkForSlowMove(): the globals it leaves and the value it returns.     *)
AG_checkForSlowMove(st, t) ==
    LET currentSmoothedMagnitude ==
            AG_sumSamples(st.g_accelMagnitudeSamples, 0) \div SLOW_MOVE_SAMPLE_COUNT
        diff == Abs(currentSmoothedMagnitude - st.g_accelBaselineMagnitude)
    IN IF ~st.g_baselineEstablished
       THEN [st |-> [st EXCEPT !.g_accelBaselineMagnitude = currentSmoothedMagnitude],
             ret |-> FALSE]
       ELSE IF diff > SLOW_MOVE_THRESHOLD_G
       THEN IF ~st.g_potentialSlowMove
            THEN [st |-> [st EXCEPT !.g_potentialSlowMove = TRUE,
                                    !.g_slowMoveStartTime = t],
                  ret |-> FALSE]
            ELSE IF USub(t, st.g_slowMoveStartTime) >= SLOW_MOVE_MIN_DURATION_MS
            THEN [st |-> [st EXCEPT !.g_accelBaselineMagnitude = currentSmoothedMagnitude,
                                    !.g_potentialSlowMove = FALSE],
                  ret |-> TRUE]
            ELSE [st |-> st, ret |-> FALSE]
       ELSE [st |-> [st EXCEPT
                       !.g_potentialSlowMove = FALSE,
                       !.g_accelBaselineMagnitude =
                           IF t % (ACCEL_READ_INTERVAL_MS * 10) = 0
                           THEN (@ * 95 + currentSmoothedMagnitude * 5) \div 100
                           ELSE @],
             ret |-> FALSE]

(* wall: the second of the day the real-time clock shows. *)
AG_getFormattedTime(st, t, wall) ==
    IF st.g_ntpTimeSyncd THEN Str("HH:MM:SS", wall)
    ELSE IF st.g_isSystemArmed
    THEN Str("s (Rel)", (USub(t, st.g_armingTimeMillis) + 5) \div 10)
    ELSE Str("No Time", 0)

(* Variant: the log takes an entry while g_motionLogCount <=              *)
(* MAX_MOTION_LOG_ENTRIES.                                                 *)
AG_processMotionDetection_OffByOne(st, t, wall, hw, s) ==
    LET a1 == IF hw THEN [st EXCEPT !.g_newRawMotionDetectedByMPU = TRUE] ELSE st
        due == USub(t, a1.g_lastAccelReadTime) >= ACCEL_READ_INTERVAL_MS
        a2 == IF due
              THEN AG_updateAccelSamples([a1 EXCEPT !.g_lastAccelReadTime = t],
                                         AG_calculateAccelMagnitude(s))
              ELSE a1
        chk == IF due /\ a2.g_baselineEstablished THEN AG_checkForSlowMove(a2, t)
               ELSE [st |-> a2, ret |-> FALSE]
        a3 == IF chk.ret THEN [chk.st EXCEPT !.g_newSlowMoveDetectedBySW = TRUE]
              ELSE chk.st
        motionDetectedThisCycle == hw \/ chk.ret
        a4 == IF motionDetectedThisCycle /\ a3.g_isSystemArmed
              THEN LET b == [a3 EXCEPT !.g_motionEventForWebUI = TRUE]
                   IN IF b.g_motionLogCount <= AG_MAX_MOTION_LOG_ENTRIES
                      THEN [b EXCEPT !.g_motionLog[b.g_motionLogCount] =
                                         AG_getFormattedTime(b, t, wall),
                                     !.g_motionLogCount = @ + 1]
                      ELSE b
              ELSE a3
    IN [st |-> a4, motion |-> motionDetectedThisCycle,
        source |-> IF hw THEN "HW" ELSE IF chk.ret THEN "SW" ELSE "",
        \* for the observer: the accelerometer was read, checkForSlowMove() was
        \* called, what it returned, and the deviation the read left
        read |-> due,
        checked |-> (due /\ a2.g_baselineEstablished),
        slow |-> chk.ret,
        diff |-> Abs(AG_sumSamples(a2.g_accelMagnitudeSamples, 0) \div SLOW_MOVE_SAMPLE_COUNT
                     - a2.g_accelBaselineMagnitude)]

(* processMotionDetection(); hw: mpu.getMotionInterruptStatus(), s: the    *)
(* sample mpu.getEvent() returns.  motion: motionDetectedThisCycle.        *)
AG_processMotionDetection(st, t, wall, hw, s) ==
    LET a1 == IF hw THEN [st EXCEPT !.g_newRawMotionDetectedByMPU = TRUE] ELSE st
        due == USub(t, a1.g_lastAccelReadTime) >= ACCEL_READ_INTERVAL_MS
        a2 == IF due
              THEN AG_updateAccelSamples([a1 EXCEPT !.g_lastAccelReadTime = t],
                                         AG_calculateAccelMagnitude(s))
              ELSE a1
        chk == IF due /\ a2.g_baselineEstablished THEN AG_checkForSlowMove(a2, t)
               ELSE [st |-> a2, ret |-> FALSE]
        a3 == IF chk.ret THEN [chk.st EXCEPT !.g_newSlowMoveDetectedBySW = TRUE]
              ELSE chk.st
        motionDetectedThisCycle == hw \/ chk.ret
        a4 == IF motionDetectedThisCycle /\ a3.g_isSystemArmed
              THEN LET b == [a3 EXCEPT !.g_motionEventForWebUI = TRUE]
                   IN IF b.g_motionLogCount < AG_MAX_MOTION_LOG_ENTRIES
                      THEN [b EXCEPT !.g_motionLog[b.g_motionLogCount] =
                                         AG_getFormattedTime(b, t, wall),
                                     !.g_motionLogCount = @ + 1]
                      ELSE b
              ELSE a3
    IN [st |-> a4, motion |-> motionDetectedThisCycle,
        source |-> IF hw THEN "HW" ELSE IF chk.ret THEN "SW" ELSE "",
        \* for the observer: the accelerometer was read, checkForSlowMove() was
        \* called, what it returned, and the deviation the read left
        read |-> due,
        checked |-> (due /\ a2.g_baselineEstablished),
        slow |-> chk.ret,
        diff |-> Abs(AG_sumSamples(a2.g_accelMagnitudeSamples, 0) \div SLOW_MOVE_SAMPLE_COUNT
                     - a2.g_accelBaselineMagnitude)]

AG_handleRawMotionLED(st, t) ==
    LET a == IF st.g_newRawMotionDetectedByMPU \/ st.g_newSlowMoveDetectedBySW
             THEN [st EXCEPT !.statusLed = "HIGH",
                             !.g_rawMotionLedActiveUntilMs =
                                 UAdd(t, RAW_MOTION_LED_DURATION_MS),
                             !.g_newRawMotionDetectedByMPU = FALSE,
                             !.g_newSlowMoveDetectedBySW = FALSE]
             ELSE st
    IN IF a.g_rawMotionLedActiveUntilMs > 0 /\ t >= a.g_rawMotionLedActiveUntilMs
       THEN [a EXCEPT !.statusLed = "LOW", !.g_rawMotionLedActiveUntilMs = 0]
       ELSE a

(* Variant: arming leaves a pending slow-move candidate pending. *)
AG_httpHandleArmCommand_KeepsCandidate(st, t, hasArg, reqArmState) ==
    IF ~hasArg THEN st
    ELSE IF reqArmState
    THEN [st EXCEPT !.g_isSystemArmed = TRUE, !.g_motionEventForWebUI = FALSE,
                    !.g_motionLogCount = 0, !.g_armingTimeMillis = t,
                    !.g_baselineEstablished = FALSE,
                    !.g_accelMagnitudeSamples =
                        [i \in 0 .. (SLOW_MOVE_SAMPLE_COUNT - 1) |-> 0],
                    !.g_accelSampleIndex = 0]
    ELSE [st EXCEPT !.g_isSystemArmed = FALSE, !.g_motionEventForWebUI = FALSE]

(* Variant: arming keeps the log. *)
AG_httpHandleArmCommand_KeepsLog(st, t, hasArg, reqArmState) ==
    IF ~hasArg THEN st
    ELSE IF reqArmState
    THEN [st EXCEPT !.g_isSystemArmed = TRUE, !.g_motionEventForWebUI = FALSE,
                    !.g_armingTimeMillis = t,
                    !.g_baselineEstablished = FALSE,
                    !.g_accelMagnitudeSamples =
                        [i \in 0 .. (SLOW_MOVE_SAMPLE_COUNT - 1) |-> 0],
                    !.g_accelSampleIndex = 0,
                    !.g_potentialSlowMove = FALSE]
    ELSE [st EXCEPT !.g_isSystemArmed = FALSE, !.g_motionEventForWebUI = FALSE]

(* hasArg: the request carries "state"; reqArmState: its value is "1". *)
AG_httpHandleArmCommand(st, t, hasArg, reqArmState) ==
    IF ~hasArg THEN st
    ELSE IF reqArmState
    THEN [st EXCEPT !.g_isSystemArmed = TRUE, !.g_motionEventForWebUI = FALSE,
                    !.g_motionLogCount = 0, !.g_armingTimeMillis = t,
                    !.g_baselineEstablished = FALSE,
                    !.g_accelMagnitudeSamples =
                        [i \in 0 .. (SLOW_MOVE_SAMPLE_COUNT - 1) |-> 0],
                    !.g_accelSampleIndex = 0,
                    !.g_potentialSlowMove = FALSE]
    ELSE [st EXCEPT !.g_isSystemArmed = FALSE, !.g_motionEventForWebUI = FALSE]

(* httpHandleStateRequest(): the JSON document it sends. *)
AG_stateResponse(st) ==
    [armed |-> st.g_isSystemArmed,
     motionEventForWebUI |-> st.g_motionEventForWebUI,
     ntp_syncd |-> st.g_ntpTimeSyncd,
     log |-> IF st.g_isSystemArmed
             THEN [i \in 1 .. st.g_motionLogCount |-> st.g_motionLog[i - 1]]
             ELSE << >>]

(* Variant: the poll leaves the one-shot flag set. *)
AG_httpHandleStateRequest_KeepsFlag(st) == st

AG_httpHandleStateRequest(st) == [st EXCEPT !.g_motionEventForWebUI = FALSE]

(* Variant: the log is cleared whether or not the system is armed. *)
AG_httpHandleResetLogCommand_Always(st) ==
    [st EXCEPT !.g_motionLogCount = 0, !.g_motionEventForWebUI = FALSE]

AG_httpHandleResetLogCommand(st) ==
    IF st.g_isSystemArmed
    THEN [st EXCEPT !.g_motionLogCount = 0, !.g_motionEventForWebUI = FALSE]
    ELSE st

(* The status code httpHandleArmCommand() and httpHandleResetLogCommand()  *)
(* send.                                                                   *)
AG_armStatus(hasArg) == IF hasArg THEN 200 ELSE 400
AG_resetLogStatus(st) == IF st.g_isSystemArmed THEN 200 ELSE 400

-----------------------------------------------------------------------------
(*              Settings test sketch: src/motion_detection2.ino            *)
(* Strings are sequences of one-character strings.  The slide threshold is *)
(* kept in mm/s^2 (0.001 m/s^2), the tilt threshold in centi-degrees.      *)

MD2_DEFAULT_TILT_THRESHOLD_DEGREES == 50
MD2_DEFAULT_SUSTAINED_TILT_DURATION_MS == 250
MD2_DEFAULT_SLIDE_THRESHOLD_ACCEL == 500
MD2_DEFAULT_SUSTAINED_SLIDE_DURATION_MS == 150
MD2_SlideThresholdMin == 50           \* 0.05f
MD2_SlideThresholdMax == 5000         \* 5.0f
MD2_SlideDurationMin == 50
MD2_SlideDurationMax == 3000
MD2_NoteMaxLength == 100

MD2Globals ==
    [ currentTiltThresholdDegrees |-> MD2_DEFAULT_TILT_THRESHOLD_DEGREES,
      currentSustainedTiltDurationMs |-> MD2_DEFAULT_SUSTAINED_TILT_DURATION_MS,
      currentSlideThresholdAccel |-> MD2_DEFAULT_SLIDE_THRESHOLD_ACCEL,
      currentSustainedSlideDurationMs |-> MD2_DEFAULT_SUSTAINED_SLIDE_DURATION_MS,
      globalUserNote |-> <<"T", "e", "s", "t", " ", "n", "o", "t", "e", ".">> ]

Digits == <<"0", "1", "2", "3", "4", "5", "6", "7", "8", "9">>
IsDigit(c) == \E i \in 1 .. 10 : Digits[i] = c
DigitValue(c) == (CHOOSE i \in 1 .. 10 : Digits[i] = c) - 1

(* The digits str starts with, read as a decimal number. *)
RECURSIVE LeadingNumber(_, _)
LeadingNumber(str, acc) ==
    IF str # << >> /\ IsDigit(Head(str))
    THEN LeadingNumber(Tail(str), acc * 10 + DigitValue(Head(str)))
    ELSE acc
RECURSIVE AfterDigits(_)
AfterDigits(str) ==
    IF str # << >> /\ IsDigit(Head(str)) THEN AfterDigits(Tail(str)) ELSE str

(* The first three decimals str starts with, in thousandths. *)
Thousandths(str) ==
    LET d(i) == IF Len(str) >= i /\ (\A j \in 1 .. i : IsDigit(str[j]))
                THEN DigitValue(str[i]) ELSE 0
    IN d(1) * 100 + d(2) * 10 + d(3)

(* String::toFloat(), in thousandths: an optional sign, digits, an         *)
(* optional point and decimals; 0 when the string starts with no number.   *)
MD2_toFloat(str) ==
    LET neg == str # << >> /\ Head(str) = "-"
        body == IF str # << >> /\ Head(str) \in {"-", "+"} THEN Tail(str) ELSE str
        rest == AfterDigits(body)
        frac == IF rest # << >> /\ Head(rest) = "." THEN Thousandths(Tail(rest)) ELSE 0
        v == LeadingNumber(body, 0) * 1000 + frac
    IN IF neg THEN 0 - v ELSE v

(* strtoul(str, NULL, 10): an optional sign and digits; a negated value    *)
(* wraps around in the unsigned type; 0 when there are no digits.          *)
MD2_strtoul(str) ==
    LET neg == str # << >> /\ Head(str) = "-"
        body == IF str # << >> /\ Head(str) \in {"-", "+"} THEN Tail(str) ELSE str
        v == LeadingNumber(body, 0)
    IN IF neg THEN USub(0, v) ELSE v % UMOD

(* handleUpdateSettings(), one turn of its loop over the form arguments. *)
MD2_applyArg(st, arg) ==
    IF arg.name = "slide_thresh_accel"
    THEN LET v == MD2_toFloat(arg.val)
         IN IF v >= MD2_SlideThresholdMin /\ v <= MD2_SlideThresholdMax
            THEN [st EXCEPT !.currentSlideThresholdAccel = v] ELSE st
    ELSE IF arg.name = "slide_duration_ms"
    THEN LET v == MD2_strtoul(arg.val)
         IN IF v >= MD2_SlideDurationMin /\ v <= MD2_SlideDurationMax
            THEN [st EXCEPT !.currentSustainedSlideDurationMs = v] ELSE st
    ELSE st

RECURSIVE MD2_applyArgs(_, _)
MD2_applyArgs(st, args) ==
    IF args = << >> THEN st
    ELSE MD2_applyArgs(MD2_applyArg(st, Head(args)), Tail(args))

(* authenticated: server.authenticate() accepted the credentials. *)
MD2_handleUpdateSettings(st, authenticated, args) ==
    IF ~authenticated THEN st ELSE MD2_applyArgs(st, args)

MD2_handleResetSettings(st, authenticated) ==
    IF ~authenticated THEN st
    ELSE [st EXCEPT
            !.currentTiltThresholdDegrees = MD2_DEFAULT_TILT_THRESHOLD_DEGREES,
            !.currentSustainedTiltDurationMs = MD2_DEFAULT_SUSTAINED_TILT_DURATION_MS,
            !.currentSlideThresholdAccel = MD2_DEFAULT_SLIDE_THRESHOLD_ACCEL,
            !.currentSustainedSlideDurationMs = MD2_DEFAULT_SUSTAINED_SLIDE_DURATION_MS]

MD2_handleUpdateNote(st, authenticated, hasArg, note) ==
    IF ~authenticated \/ ~hasArg THEN st
    ELSE [st EXCEPT !.globalUserNote =
             IF Len(note) > MD2_NoteMaxLength THEN SubSeq(note, 1, MD2_NoteMaxLength)
             ELSE note]

-----------------------------------------------------------------------------
(*      Adjustable coaster sketch: src/Motion_Detection4.ino               *)
(* Thresholds in centi-degrees and cm/s^2, as the samples.                 *)

MD4_DEFAULT_TILT_THRESHOLD_DEGREES == 150         \* 1.5 deg
MD4_DEFAULT_SUSTAINED_TILT_DURATION_MS == 250
MD4_DEFAULT_SLIDE_THRESHOLD_ACCEL == 100          \* 1.0 m/s^2
MD4_DEFAULT_SUSTAINED_SLIDE_DURATION_MS == 250
MD4_TELEMETRY_READ_INTERVAL_MS == 50
MD4_WEB_MOTION_INDICATOR_DURATION_MS == 2000
MD4_LED_MOTION_INDICATOR_DURATION_MS == 1000
MD4_TiltThresholdMin == 20                        \* 0.2f
MD4_TiltThresholdMax == 500                       \* 5.0f
MD4_SlideThresholdMin == 10                       \* 0.1f
MD4_SlideThresholdMax == 300                      \* 3.0f
MD4_DurationMin == 50
MD4_DurationMax == 1000
MD4_stepFloat == 10                               \* 0.1f
MD4_stepLong == 25

MD4Globals ==
    [ currentTiltThresholdDegrees |-> MD4_DEFAULT_TILT_THRESHOLD_DEGREES,
      currentSustainedTiltDurationMs |-> MD4_DEFAULT_SUSTAINED_TILT_DURATION_MS,
      currentSlideThresholdAccel |-> MD4_DEFAULT_SLIDE_THRESHOLD_ACCEL,
      currentSustainedSlideDurationMs |-> MD4_DEFAULT_SUSTAINED_SLIDE_DURATION_MS,
      currentAcceleration |-> ZeroSample, currentRoll_deg |-> 0, currentPitch_deg |-> 0,
      animRoll |-> 0, animPitch |-> 0, animSlideX |-> 0,
      lastMotionTimestamp_ms |-> 0,
      webShowsMotionActive |-> FALSE, ledIndicatesMotion |-> FALSE,
      isSustainedTilt |-> FALSE, isSustainedSlide |-> FALSE, lastMotionType |-> "None",
      prevTiltRoll_deg |-> 0, prevTiltPitch_deg |-> 0, firstTiltCheck |-> TRUE,
      sustainedTiltStartTime_ms |-> 0,
      prevSlideAccelX |-> 0, prevSlideAccelY |-> 0, firstSlideCheck |-> TRUE,
      sustainedSlideStartTime_ms |-> 0,
      lastTelemetryReadTime_ms |-> 0 ]

MD4_constrain(x, lo, hi) == IF x < lo THEN lo ELSE IF x > hi THEN hi ELSE x

(* Variant: the stepped value is stored as it is. *)
MD4_handleUpdateSetting_Unconstrained(st, param, action) ==
    LET step(val, by) == IF action = "inc" THEN val + by
                         ELSE IF action = "dec" THEN val - by ELSE val
    IN CASE param = "tilt_thresh" ->
              [st EXCEPT !.currentTiltThresholdDegrees = step(@, MD4_stepFloat)]
         [] param = "tilt_dur" ->
              [st EXCEPT !.currentSustainedTiltDurationMs = step(@, MD4_stepLong)]
         [] param = "slide_thresh" ->
              [st EXCEPT !.currentSlideThresholdAccel = step(@, MD4_stepFloat)]
         [] param = "slide_dur" ->
              [st EXCEPT !.currentSustainedSlideDurationMs = step(@, MD4_stepLong)]
         [] OTHER -> st

(* handleUpdateSetting(); param, action: server.arg(...), "" when missing. *)
MD4_handleUpdateSetting(st, param, action) ==
    LET step(val, by) == IF action = "inc" THEN val + by
                         ELSE IF action = "dec" THEN val - by ELSE val
    IN CASE param = "tilt_thresh" ->
              [st EXCEPT !.currentTiltThresholdDegrees =
                  MD4_constrain(step(@, MD4_stepFloat),
                                MD4_TiltThresholdMin, MD4_TiltThresholdMax)]
         [] param = "tilt_dur" ->
              [st EXCEPT !.currentSustainedTiltDurationMs =
                  MD4_constrain(step(@, MD4_stepLong), MD4_DurationMin, MD4_DurationMax)]
         [] param = "slide_thresh" ->
              [st EXCEPT !.currentSlideThresholdAccel =
                  MD4_constrain(step(@, MD4_stepFloat),
                                MD4_SlideThresholdMin, MD4_SlideThresholdMax)]
         [] param = "slide_dur" ->
              [st EXCEPT !.currentSustainedSlideDurationMs =
                  MD4_constrain(step(@, MD4_stepLong), MD4_DurationMin, MD4_DurationMax)]
         [] OTHER -> st

MD4_processSensorData(st, s) ==
    [st EXCEPT !.currentAcceleration = s,
               !.currentRoll_deg = atan2_cdeg(s.ay, s.az),
               !.currentPitch_deg = atan2_cdeg(-s.ax, isqrt(s.ay * s.ay + s.az * s.az))]

(* The deviation tests of detectSustainedMotionEvents(): change since the  *)
(* previous sample.                                                        *)
MD4_TiltAbove(st) ==
    \/ Abs(st.currentRoll_deg - st.prevTiltRoll_deg) > st.currentTiltThresholdDegrees
    \/ Abs(st.currentPitch_deg - st.prevTiltPitch_deg) > st.currentTiltThresholdDegrees
MD4_SlideAbove(st) ==
    \/ Abs(st.currentAcceleration.ax - st.prevSlideAccelX) > st.currentSlideThresholdAccel
    \/ Abs(st.currentAcceleration.ay - st.prevSlideAccelY) > st.currentSlideThresholdAccel

(* detectSustainedMotionEvents(), tilt part; fire: tiltDetectedThisCycle.  *)
MD4_detectTilt(st, currentTime) ==
    LET a == IF st.firstTiltCheck THEN [st EXCEPT !.firstTiltCheck = FALSE]
             ELSE IF MD4_TiltAbove(st)
             THEN IF st.sustainedTiltStartTime_ms = 0
                  THEN [st EXCEPT !.sustainedTiltStartTime_ms = currentTime]
                  ELSE IF /\ USub(currentTime, st.sustainedTiltStartTime_ms)
                                 >= st.currentSustainedTiltDurationMs
                          /\ ~st.isSustainedTilt
                  THEN [st EXCEPT !.isSustainedTilt = TRUE,
                                  !.animPitch = st.currentPitch_deg,
                                  !.animRoll = st.currentRoll_deg,
                                  !.lastMotionType = "Tilt"]
                  ELSE st
             ELSE [st EXCEPT !.sustainedTiltStartTime_ms = 0]
    IN [st |-> [a EXCEPT !.prevTiltRoll_deg = st.currentRoll_deg,
                         !.prevTiltPitch_deg = st.currentPitch_deg],
        fire |-> (a.isSustainedTilt /\ ~st.isSustainedTilt)]

(* detectSustainedMotionEvents(), slide part; fire: slideDetectedThisCycle. *)
MD4_detectSlide(st, currentTime) ==
    LET x == st.currentAcceleration.ax
        deltaAccelX == Abs(x - st.prevSlideAccelX)
        deltaAccelY == Abs(st.currentAcceleration.ay - st.prevSlideAccelY)
        a == IF st.firstSlideCheck THEN [st EXCEPT !.firstSlideCheck = FALSE]
             ELSE IF MD4_SlideAbove(st)
             THEN IF st.sustainedSlideStartTime_ms = 0
                  THEN [st EXCEPT !.sustainedSlideStartTime_ms = currentTime]
                  ELSE IF /\ USub(currentTime, st.sustainedSlideStartTime_ms)
                                 >= st.currentSustainedSlideDurationMs
                          /\ ~st.isSustainedSlide
                  THEN [st EXCEPT !.isSustainedSlide = TRUE,
                                  !.animSlideX = IF deltaAccelX > deltaAccelY
                                                 THEN IF x > st.prevSlideAccelX THEN 1 ELSE -1
                                                 ELSE 0,
                                  !.lastMotionType = "Slide"]
                  ELSE st
             ELSE [st EXCEPT !.sustainedSlideStartTime_ms = 0]
    IN [st |-> [a EXCEPT !.prevSlideAccelX = st.currentAcceleration.ax,
                         !.prevSlideAccelY = st.currentAcceleration.ay],
        fire |-> (a.isSustainedSlide /\ ~st.isSustainedSlide)]

MD4_detectSustainedMotionEvents(st, currentTime) ==
    LET tl == MD4_detectTilt(st, currentTime)
        sl == MD4_detectSlide(tl.st, currentTime)
    IN IF tl.fire \/ sl.fire
       THEN [sl.st EXCEPT !.lastMotionTimestamp_ms = currentTime]
       ELSE sl.st

MD4_updateSystemIndicators(st, currentTime_ms) ==
    LET since == USub(currentTime_ms, st.lastMotionTimestamp_ms)
        a == IF since < MD4_WEB_MOTION_INDICATOR_DURATION_MS /\ st.lastMotionTimestamp_ms # 0
             THEN [st EXCEPT !.webShowsMotionActive = TRUE]
             ELSE [st EXCEPT !.webShowsMotionActive = FALSE,
                             !.isSustainedTilt = FALSE, !.isSustainedSlide = FALSE,
                             !.lastMotionType = "None",
                             !.animRoll = 0, !.animPitch = 0, !.animSlideX = 0]
    IN [a EXCEPT !.ledIndicatesMotion =
            since < MD4_LED_MOTION_INDICATOR_DURATION_MS /\ st.lastMotionTimestamp_ms # 0]

(* telemetry part of loop(). *)
MD4_telemetry(st, t, s) ==
    IF USub(t, st.lastTelemetryReadTime_ms) >= MD4_TELEMETRY_READ_INTERVAL_MS
    THEN MD4_detectSustainedMotionEvents(
             MD4_processSensorData([st EXCEPT !.lastTelemetryReadTime_ms = t], s), t)
    ELSE st

-----------------------------------------------------------------------------
(*        v4 sketch: src/unnamed/part_001, second sketch (always on)       *)

V4_TILT_THRESHOLD == 400                       \* 4.0 deg
V4_SUSTAINED_TILT_DURATION_MS == 500
V4_SLIDE_THRESHOLD == 70                       \* 0.7 m/s^2
V4_SUSTAINED_SLIDE_DURATION_MS == 1000
V4_TELEMETRY_READ_INTERVAL_MS == 50
V4_WEB_MOTION_INDICATOR_DURATION_MS == 2500
V4_LED_MOTION_INDICATOR_DURATION_MS == 1500

V4Globals ==
    [ currentAcceleration |-> ZeroSample, currentRoll_deg |-> 0, currentPitch_deg |-> 0,
      currentYaw_deg |-> 0, baseRoll_deg |-> 0, basePitch_deg |-> 0,
      baseOrientationSet |-> FALSE,
      lastMotionTimestamp_ms |-> 0,
      webShowsMotionActive |-> FALSE, ledIndicatesMotion |-> FALSE,
      isSustainedTilt |-> FALSE, isSustainedSlide |-> FALSE, lastMotionType |-> "None",
      sustainedTiltStartTime_ms |-> 0, sustainedSlideStartTime_ms |-> 0,
      lastTelemetryReadTime_ms |-> 0 ]

(* processSensorData(); yaw in units of gz * 50 ms. *)
V4_processSensorData(st, s) ==
    [st EXCEPT !.currentAcceleration = s,
               !.currentRoll_deg = atan2_cdeg(s.ay, s.az),
               !.currentPitch_deg = atan2_cdeg(-s.ax, isqrt(s.ay * s.ay + s.az * s.az)),
               !.currentYaw_deg = @ + s.gz]

V4_handleResetOrientation(st) ==
    [st EXCEPT !.baseRoll_deg = st.currentRoll_deg, !.basePitch_deg = st.currentPitch_deg,
               !.currentYaw_deg = 0, !.baseOrientationSet = TRUE]

V4_TiltAbove(st) ==
    \/ Abs(st.currentRoll_deg - st.baseRoll_deg) > V4_TILT_THRESHOLD
    \/ Abs(st.currentPitch_deg - st.basePitch_deg) > V4_TILT_THRESHOLD
V4_SlideAbove(st) ==
    LET a == st.currentAcceleration
    IN a.ax * a.ax + a.ay * a.ay > V4_SLIDE_THRESHOLD * V4_SLIDE_THRESHOLD

(* One detector block of detectSustainedMotionEvents(). *)
V4_DetectorBlock(st, currentTime, above, timer, flag, duration, type) ==
    IF above
    THEN IF st[timer] = 0
         THEN [st EXCEPT ![timer] = currentTime]
         ELSE IF USub(currentTime, st[timer]) >= duration /\ ~st[flag]
         THEN [st EXCEPT ![flag] = TRUE, !.lastMotionType = type]
         ELSE st
    ELSE [st EXCEPT ![timer] = 0]

V4_detectSustainedMotionEvents(st, currentTime) ==
    LET a1 == V4_DetectorBlock(st, currentTime, V4_TiltAbove(st),
                  "sustainedTiltStartTime_ms", "isSustainedTilt",
                  V4_SUSTAINED_TILT_DURATION_MS, "Tilt")
        a2 == V4_DetectorBlock(a1, currentTime, V4_SlideAbove(st),
                  "sustainedSlideStartTime_ms", "isSustainedSlide",
                  V4_SUSTAINED_SLIDE_DURATION_MS, "Slide")
    IN IF (a2.isSustainedTilt /\ ~st.isSustainedTilt)
          \/ (a2.isSustainedSlide /\ ~st.isSustainedSlide)
       THEN [a2 EXCEPT !.lastMotionTimestamp_ms = currentTime]
       ELSE a2

V4_updateSystemIndicators(st, currentTime_ms) ==
    LET since == USub(currentTime_ms, st.lastMotionTimestamp_ms)
        a == IF since < V4_WEB_MOTION_INDICATOR_DURATION_MS /\ st.lastMotionTimestamp_ms # 0
             THEN [st EXCEPT !.webShowsMotionActive = TRUE]
             ELSE [st EXCEPT !.webShowsMotionActive = FALSE,
                             !.isSustainedTilt = FALSE, !.isSustainedSlide = FALSE,
                             !.lastMotionType = "None"]
    IN [a EXCEPT !.ledIndicatesMotion =
            since < V4_LED_MOTION_INDICATOR_DURATION_MS /\ st.lastMotionTimestamp_ms # 0]

(* telemetry part of loop(); the base orientation is taken after the     *)
(* first telemetry read.                                                   *)
V4_telemetry(st, t, s) ==
    LET a1 == V4_detectSustainedMotionEvents(
                  V4_processSensorData([st EXCEPT !.lastTelemetryReadTime_ms = t], s), t)
    IN IF USub(t, st.lastTelemetryReadTime_ms) >= V4_TELEMETRY_READ_INTERVAL_MS
       THEN IF a1.baseOrientationSet THEN a1
            ELSE [a1 EXCEPT !.baseRoll_deg = a1.currentRoll_deg,
                            !.basePitch_deg = a1.currentPitch_deg,
                            !.currentYaw_deg = 0, !.baseOrientationSet = TRUE]
       ELSE st

-----------------------------------------------------------------------------
(*   Tap-Guard sketches with an event ring buffer: v5.1                    *)
(*   (src/Motion_Detection_Alpha.ino) and v6                               *)
(*   (src/Motion_Detection_Alpha2.ino); sketch is "alpha" or "alpha2".     *)
(*   sens is kept in thousandths.                                          *)

MAX == 300          \* capacity of ev[] in v5.1
MAXEV == 350        \* capacity of ev[] in v6
THR_MIN == 1
THR_MAX == 120
RING_MOVING_TIMEOUT == 1200

Ring_capacity(v) == IF v = "alpha" THEN MAX ELSE MAXEV

(* An Ev of the ring buffer; a zeroed slot (static storage, memset) has    *)
(* ts = 0.                                                                 *)
Ev(ts, s) == [ts |-> ts, ax |-> s.ax, ay |-> s.ay, az |-> s.az,
              gx |-> s.gx, gy |-> s.gy, gz |-> s.gz]
RingReading(ax) == [ax |-> ax, ay |-> 0, az |-> 981, gx |-> 0, gy |-> 0, gz |-> 0]
EvZero == Ev(0, [ax |-> 0, ay |-> 0, az |-> 0, gx |-> 0, gy |-> 0, gz |-> 0])

(* calcThr(): v5.1 max(1, int(25 - sens * 24)), v6                         *)
(* max(THR_MIN, int(THR_MAX - sens * (THR_MAX - THR_MIN))).                *)
Ring_calcThr(v, sens) ==
    LET raw == IF v = "alpha" THEN (25 * 1000 - sens * 24) \div 1000
               ELSE (THR_MAX * 1000 - sens * (THR_MAX - THR_MIN)) \div 1000
        low == IF v = "alpha" THEN 1 ELSE THR_MIN
    IN IF raw < low THEN low ELSE raw

RingGlobals(v) ==
    [ sens |-> IF v = "alpha" THEN 300 ELSE 900,
      ev |-> [i \in 0 .. (Ring_capacity(v) - 1) |-> EvZero],
      head |-> 0 - 1, moving |-> FALSE, lastHit |-> 0, led |-> "LOW",
      threshold |-> 0 ]       \* the MPU's motion detection threshold register

(* The value of ring while another sketch is flashed: the globals of the   *)
(* ring-buffer sketches do not exist then.                                 *)
RingAbsent == << >>

Ring_setup(v) == [RingGlobals(v) EXCEPT !.threshold = Ring_calcThr(v, RingGlobals(v).sens)]

(* handleLog() / hLog(): the lines of the CSV body, the header first, then *)
(* one line per slot from head backwards (idx = (head - i + MAX) % MAX)    *)
(* until a slot with ts == 0 or until the whole array has been listed.     *)
Ring_hLog(v, st) ==
    LET cap == Ring_capacity(v)
        idx(i) == (st.head - i + cap) % cap
        stop(i) == st.ev[idx(i)].ts = 0
        count == IF \A i \in 0 .. (cap - 1) : ~stop(i) THEN cap
                 ELSE CHOOSE i \in 0 .. (cap - 1) : stop(i) /\ \A j \in 0 .. (i - 1) : ~stop(j)
        line(i) == LET e == st.ev[idx(i)]
                   IN << Str("%d", idx(i)), Str("%F %T", e.ts), Str("%.2f", e.ax),
                         Str("%.2f", e.ay), Str("%.2f", e.az), Str("%.2f", e.gx),
                         Str("%.2f", e.gy), Str("%.2f", e.gz) >>
    IN << <<"id", "time", "ax", "ay", "az", "gx", "gy", "gz">> >>
           \o [i \in 1 .. count |-> line(i - 1)]

(* tick() of the v6 dashboard: the table body is emptied, then the lines   *)
(* after the header are visited in order (rows.forEach) and each line with *)
(* at least 8 fields becomes a table row that is put in front of the rows  *)
(* already in the table (tb.prepend(tr)).  Ring_forEach is the table the   *)
(* visit of rows lo..hi builds from an empty one: what the later half      *)
(* prepends ends up in front of what the earlier half has prepended.       *)
RECURSIVE Ring_forEach(_, _, _)
Ring_forEach(rows, lo, hi) ==
    IF lo > hi THEN << >>
    ELSE IF lo = hi THEN (IF Len(rows[lo]) < 8 THEN << >> ELSE <<rows[lo]>>)
    ELSE LET mid == (lo + hi) \div 2
         IN Ring_forEach(rows, mid + 1, hi) \o Ring_forEach(rows, lo, mid)

Ring_tick(csv) == Ring_forEach(Tail(csv), 1, Len(csv) - 1)

(* handleSens() / hSens(): sens = constrain(arg("val").toFloat(), 0, 1);   *)
(* a missing argument reads as the empty string.                           *)
Ring_hSens(v, st, val) ==
    LET f == MD2_toFloat(val)
        sens == IF f < 0 THEN 0 ELSE IF f > 1000 THEN 1000 ELSE f
    IN [st EXCEPT !.sens = sens, !.threshold = Ring_calcThr(v, sens)]

(* handleReset() / hReset() *)
Ring_hReset(v, st) ==
    [st EXCEPT !.ev = [i \in 0 .. (Ring_capacity(v) - 1) |-> EvZero],
               !.head = 0 - 1, !.moving = FALSE]

(* The rest of loop() with head advanced without the modulo. *)
Ring_loopBody_NoWrap(v, st, t, now, int, s) ==
    LET h == st.head + 1
        s1 == IF int
              THEN [st EXCEPT !.head = h,
                              !.ev = [i \in DOMAIN st.ev |-> IF i = h THEN Ev(now, s) ELSE st.ev[i]],
                              !.led = "HIGH", !.moving = TRUE, !.lastHit = t]
              ELSE st
    IN IF s1.moving /\ USub(t, s1.lastHit) > RING_MOVING_TIMEOUT
       THEN [s1 EXCEPT !.moving = FALSE, !.led = "LOW"]
       ELSE s1

(* The rest of loop(): t = millis(), now = time(nullptr), int = the MPU's  *)
(* motion interrupt status, s = the reading of getEvent().                 *)
Ring_loopBody(v, st, t, now, int, s) ==
    LET h == (st.head + 1) % Ring_capacity(v)
        s1 == IF int
              THEN [st EXCEPT !.head = h,
                              !.ev = [i \in DOMAIN st.ev |-> IF i = h THEN Ev(now, s) ELSE st.ev[i]],
                              !.led = "HIGH", !.moving = TRUE, !.lastHit = t]
              ELSE st
    IN IF s1.moving /\ USub(t, s1.lastHit) > RING_MOVING_TIMEOUT
       THEN [s1 EXCEPT !.moving = FALSE, !.led = "LOW"]
       ELSE s1

-----------------------------------------------------------------------------
(*   Tap-Guard sketches: v7 (src/unnamed/part_000) and v8 (second sketch   *)
(*   of src/motion_detection.ino); sketch is "tg7" or "tg8"                *)

TG_ALERT_TIMEOUT_V7 == 1500
TG_ALERT_TIMEOUT_V8 == 2500

TGGlobals(v) ==
    [ level |-> IF v = "tg7" THEN 10 ELSE 5, armed |-> FALSE, alertOn |-> FALSE,
      lastMove |-> 0, led |-> "LOW",
      threshold |-> 0 ]       \* the MPU's motion detection threshold register

(* thrVal(): the GUI level 1..10 mapped to the MPU threshold.  v7 computes *)
(* THR_MAX - (level-1) * ((THR_MAX-THR_MIN)/9.0f) and truncates; v8 uses   *)
(* map(level, 1, 4, 80, 2) below level 5 and 1 from level 5 on.            *)
TG_thrVal(v, level) ==
    IF v = "tg7"
    THEN 180 - (((level - 1) * 179 + 8) \div 9)
    ELSE IF level >= 5 THEN 1
    ELSE 80 - ((level - 1) * 78) \div 3

(* setup(): the threshold register is set from the default level. *)
TG_setup(v) == [TGGlobals(v) EXCEPT !.threshold = TG_thrVal(v, TGGlobals(v).level)]

(* Variant: a disarm command leaves the alert as it is. *)
TG_hArm_KeepsAlert(v, st, state) == [st EXCEPT !.armed = (state = "1")]

(* hArm(); state: server.arg("state"), "" when the argument is missing. *)
TG_hArm(v, st, state) ==
    LET a == [st EXCEPT !.armed = (state = "1")]
    IN IF v = "tg7" THEN [a EXCEPT !.alertOn = FALSE]
       ELSE IF ~a.armed THEN [a EXCEPT !.alertOn = FALSE, !.led = "LOW"]
       ELSE a

(* String::toInt(): an optional sign and digits, 0 when there are none. *)
TG_toInt(str) ==
    LET neg == str # << >> /\ Head(str) = "-"
        body == IF str # << >> /\ Head(str) \in {"-", "+"} THEN Tail(str) ELSE str
    IN IF neg THEN 0 - LeadingNumber(body, 0) ELSE LeadingNumber(body, 0)

(* Variant: the level is stored as it was sent. *)
TG_hSens_Unconstrained(v, st, hasArg, val) ==
    IF v = "tg8" /\ ~hasArg THEN st
    ELSE LET newLevel == TG_toInt(IF hasArg THEN val ELSE << >>)
         IN [st EXCEPT !.level = newLevel, !.threshold = TG_thrVal(v, newLevel)]

(* hSens(); hasArg: the request carries "val" (v7 does not test it and     *)
(* reads "" then).                                                         *)
TG_hSens(v, st, hasArg, val) ==
    IF v = "tg8" /\ ~hasArg THEN st
    ELSE LET newLevel == TG_toInt(IF hasArg THEN val ELSE << >>)
             l == IF newLevel < 1 THEN 1 ELSE IF newLevel > 10 THEN 10 ELSE newLevel
         IN [st EXCEPT !.level = l, !.threshold = TG_thrVal(v, l)]

(* hState(): the JSON document it sends (l only in v8). *)
TG_hState(v, st) ==
    [a |-> IF st.armed THEN 1 ELSE 0, m |-> IF st.alertOn THEN 1 ELSE 0,
     b |-> IF v = "tg7" THEN 85 ELSE 95, l |-> IF v = "tg7" THEN 0 ELSE st.level]

(* loop() after handleClient(); int: what mpu.getMotionInterruptStatus()   *)
(* returns when it is called.  In v8 the body of the alert timeout block   *)
(* is commented out.                                                       *)
TG_loopBody(v, st, t, int) ==
    LET a1 == IF st.armed /\ int
              THEN [st EXCEPT !.led = "HIGH", !.alertOn = TRUE, !.lastMove = t]
              ELSE st
    IN IF v = "tg7"
       THEN IF a1.alertOn /\ USub(t, a1.lastMove) > TG_ALERT_TIMEOUT_V7
            THEN [a1 EXCEPT !.alertOn = FALSE, !.led = "LOW"]
            ELSE a1
       ELSE IF ~a1.armed THEN [a1 EXCEPT !.led = "LOW", !.alertOn = FALSE]
            ELSE a1

-----------------------------------------------------------------------------
(* Observer of the v5 sketch.                                              *)
(*   loops      loop iterations started so far                             *)
(*   reqs, arms arm and disarm commands, and arm commands, served so far   *)
(*   shorts     loop iterations so far that came too early for a tick      *)
(*   armClock   clock of the latest arm command (-1: none yet)             *)
(*   lastReq    request served by the latest handleClient()                *)
(*   ticked     a classifier evaluation happened since the latest arm      *)
(*   tickClock  clock of the latest classifier evaluation                  *)
(*   edgeTick   the latest loop iteration saw a rising edge                *)
(*   exc[T]     the excursion of type T in progress in this armed session: *)
(*              start = clock of its first tick (-1: deviation at or below *)
(*              the threshold at the latest tick, or no tick yet),         *)
(*              clean = it began with the detector Idle (flag false, timer *)
(*              0), edges = rising edges seen during it                    *)
Types == {"Tilt", "Slide", "Lift"}
NoExc == [start |-> -1, clean |-> FALSE, edges |-> 0]
V5Obs0 == [loops |-> 0, reqs |-> 0, arms |-> 0, shorts |-> 0, armClock |-> -1, lastReq |-> "none", ticked |-> FALSE, tickClock |-> -1,
           edgeTick |-> FALSE, exc |-> [T \in Types |-> NoExc]]

V5_Flag(st, T) == CASE T = "Tilt" -> st.isSustainedTilt
                    [] T = "Slide" -> st.isSustainedSlide
                    [] T = "Lift" -> st.isSustainedLift
V5_Timer(st, T) == CASE T = "Tilt" -> st.sustainedTiltStartTime_ms
                     [] T = "Slide" -> st.sustainedSlideStartTime_ms
                     [] T = "Lift" -> st.sustainedLiftStartTime_ms
V5_Above(st, T) == CASE T = "Tilt" -> V5_TiltAbove(st)
                     [] T = "Slide" -> V5_SlideAbove(st)
                     [] T = "Lift" -> V5_LiftAbove(st)
V5_Duration(T) == CASE T = "Tilt" -> V5_SUSTAINED_TILT_DURATION_MS
                    [] T = "Slide" -> V5_SUSTAINED_SLIDE_DURATION_MS
                    [] T = "Lift" -> V5_SUSTAINED_LIFT_DURATION_MS

V5_Idle(st, T) == ~V5_Flag(st, T) /\ V5_Timer(st, T) = 0

(* pre: globals when detectSustainedMotionEvents() is entered, post: when  *)
(* it returns.                                                             *)
V5ObsTick(o, pre, post) ==
    LET edge(T) == ~V5_Flag(pre, T) /\ V5_Flag(post, T)
        n(T) == IF edge(T) THEN 1 ELSE 0
    IN [o EXCEPT
          !.ticked = TRUE,
          !.tickClock = clock,
          !.edgeTick = \E T \in Types : edge(T),
          !.exc = [T \in Types |->
                     IF ~V5_Above(pre, T) THEN NoExc
                     ELSE IF o.exc[T].start = -1
                          THEN [start |-> clock, clean |-> V5_Idle(pre, T), edges |-> n(T)]
                          ELSE [o.exc[T] EXCEPT !.edges = @ + n(T)]]]

V5ObsSession(o, req) ==
    [o EXCEPT !.lastReq = req, !.ticked = FALSE, !.tickClock = -1,
              !.exc = [T \in Types |-> NoExc]]

-----------------------------------------------------------------------------
(* Actions of the v5 sketch.  d is the time since the previous loop        *)
(* iteration ended (delay(1), request handling).                           *)
Short(d) == d < V5_TELEMETRY_READ_INTERVAL_MS
V5ObsStep(o, d) == [o EXCEPT !.loops = @ + 1, !.shorts = IF Short(d) THEN @ + 1 ELSE @]

(* max: the loop iterations the specification allows.                      *)
Tick(d, max) ==
    /\ clock + d <= MaxClock
    /\ obs.loops < max
    /\ Short(d) => obs.shorts < MaxShortSteps
    /\ clock' = clock + d
    /\ millis' = UAdd(millis, d)

V5NoRequest(d, max) ==
    /\ sketch = "v5" /\ pc = "client"
    /\ Tick(d, max)
    /\ pc' = "body"
    /\ obs' = V5ObsStep([obs EXCEPT !.lastReq = "none"], d)
    /\ UNCHANGED <<sketch, v5, notV5>>

V5HandleArmSystem(d, s, max) ==
    /\ sketch = "v5" /\ pc = "client"
    /\ Tick(d, max)
    /\ pc' = "body"
    /\ v5' = V5_handleArmSystem(v5, millis', s)
    /\ obs.reqs < MaxRequests
    /\ obs' = V5ObsStep([V5ObsSession(obs, "arm") EXCEPT !.armClock = clock',
                                                          !.reqs = @ + 1, !.arms = @ + 1], d)
    /\ UNCHANGED <<sketch, notV5>>

V5HandleDisarmSystem(d, max) ==
    /\ sketch = "v5" /\ pc = "client"
    /\ Tick(d, max)
    /\ pc' = "body"
    /\ v5' = V5_handleDisarmSystem(v5)
    /\ obs.reqs < MaxRequests
    /\ obs' = V5ObsStep([V5ObsSession(obs, "disarm") EXCEPT !.reqs = @ + 1], d)
    /\ UNCHANGED <<sketch, notV5>>

(* The rest of loop(): telemetry tick when due, armed-duration timer,      *)
(* indicators.                                                             *)
V5Loop(s) ==
    /\ sketch = "v5" /\ pc = "body"
    /\ LET currentTime_ms == millis
           due == USub(currentTime_ms, v5.lastTelemetryReadTime_ms)
                      >= V5_TELEMETRY_READ_INTERVAL_MS
           a1 == IF due
                 THEN V5_processSensorData(
                          [v5 EXCEPT !.lastTelemetryReadTime_ms = currentTime_ms], s)
                 ELSE v5
           a2 == IF due /\ a1.systemArmed
                 THEN V5_detectSustainedMotionEvents(a1, millis)
                 ELSE a1
           a3 == V5_armTimer(a2, currentTime_ms)
           a4 == V5_updateSystemIndicators(a3, currentTime_ms)
           o1 == IF due /\ a1.systemArmed THEN V5ObsTick(obs, a1, a2)
                 ELSE [obs EXCEPT !.edgeTick = FALSE]
           o2 == IF a2.systemArmed /\ ~a3.systemArmed THEN V5ObsSession(o1, "expired")
                 ELSE o1
       IN /\ v5' = a4
          /\ obs' = o2
    /\ pc' = "client"
    /\ UNCHANGED <<sketch, millis, clock, notV5>>

-----------------------------------------------------------------------------
(* Specification Spec: the v5 sketch at the time scale of the classifiers. *)
FineSteps == {100}
V5FineSamples == {Rest, TiltPose, LiftPose}

(* Initial states: setup() has just returned, or the device has idled      *)
(* disarmed since boot until shortly before millis() wraps, its latest     *)
(* loop iteration having read the sensor.                                  *)
InitV5 ==
    /\ sketch = "v5"
    /\ millis \in BootTimes
    /\ clock = 0
    /\ pc = "client"
    /\ v5 = [V5Globals EXCEPT !.lastTelemetryReadTime_ms =
                                 IF millis = BootMillis THEN 0 ELSE millis]
    /\ md1 = MD1Globals /\ md2 = MD2Globals /\ tg = TGGlobals("tg8")
    /\ md4 = MD4Globals /\ v4 = V4Globals /\ ring = RingAbsent /\ md3 = MD3Globals /\ ag = AGGlobals
    /\ obs = V5Obs0

NextV5 ==
    \/ \E d \in FineSteps : V5NoRequest(d, MaxLoopsFine)
    \/ \E d \in FineSteps, s \in V5FineSamples : V5HandleArmSystem(d, s, MaxLoopsFine)
    \/ \E d \in FineSteps : V5HandleDisarmSystem(d, MaxLoopsFine)
    \/ \E s \in V5FineSamples : V5Loop(s)

Spec == InitV5 /\ [][NextV5]_vars

(* Specification SpecV5Timer: the v5 sketch at the time scale of the armed *)
(* duration: a loop iteration may come 40 ms, 500 ms or 599 s after the    *)
(* previous one.                                                           *)
CoarseSteps == {40, 500, 599000}
V5CoarseSamples == {Rest, TiltPose}

NextV5Timer ==
    \/ \E d \in CoarseSteps : V5NoRequest(d, MaxLoopsCoarse)
    \/ \E d \in CoarseSteps, s \in V5CoarseSamples : V5HandleArmSystem(d, s, MaxLoopsCoarse)
    \/ \E d \in CoarseSteps : V5HandleDisarmSystem(d, MaxLoopsCoarse)
    \/ \E s \in V5CoarseSamples : V5Loop(s)

SpecV5Timer == InitV5 /\ [][NextV5Timer]_vars

(* Specification SpecV5Scenario: one armed session with a tick every       *)
(* ScenarioStep ms.  The first loop iteration serves an arm command with   *)
(* the device at rest; the ticks from ExcursionStart on, for               *)
(* ExcursionLength ms, read the device rolled 6 degrees, every other tick  *)
(* reads it at rest.                                                       *)
ScenarioStep == 50
ExcursionStart == 100
ExcursionLength == 600
MaxLoopsScenario == 76

ScenarioSample(c) ==
    IF ExcursionStart <= c /\ c < ExcursionStart + ExcursionLength THEN TiltPose ELSE Rest

NextV5Scenario ==
    \/ obs.loops = 0 /\ V5HandleArmSystem(ScenarioStep, Rest, MaxLoopsScenario)
    \/ obs.loops > 0 /\ V5NoRequest(ScenarioStep, MaxLoopsScenario)
    \/ V5Loop(ScenarioSample(clock))

SpecV5Scenario == InitV5 /\ [][NextV5Scenario]_vars

(* Specification SpecV5Yaw: the v5 sketch fed samples of a device that is  *)
(* at rest or rolled 6 degrees and turning about its z axis.               *)
MaxLoopsYaw == 6
Spin == Sample(0, 103, 975, 30)
V5YawSamples == {Rest, Spin}

NextV5Yaw ==
    \/ \E d \in FineSteps : V5NoRequest(d, MaxLoopsYaw)
    \/ \E d \in FineSteps, s \in V5YawSamples : V5HandleArmSystem(d, s, MaxLoopsYaw)
    \/ \E d \in FineSteps : V5HandleDisarmSystem(d, MaxLoopsYaw)
    \/ \E s \in V5YawSamples : V5Loop(s)

SpecV5Yaw == InitV5 /\ [][NextV5Yaw]_vars

-----------------------------------------------------------------------------
(*                         Claims: v5 arming sketch                        *)

(* C1: an arm command leaves every detector Idle, so no detector reports   *)
(* Sustained earlier than its full debounce duration after the latest arm  *)
(* command.                                                                *)
C1_NoSustainedBeforeDebounceAfterArm ==
    \A T \in Types :
        V5_Flag(v5, T) => (obs.armClock # -1 /\ clock - obs.armClock >= V5_Duration(T))

(* C2: while armed and not disarmed by command, a loop iteration leaves    *)
(* the system armed exactly when less than ARMED_DURATION_MS have passed   *)
(* since the latest arm command; only a disarm command or that loop        *)
(* iteration disarms.                                                      *)
C2_ArmedUntilExpiry ==
    [][ /\ (pc = "body" /\ v5.systemArmed)
            => (v5'.systemArmed <=> (clock - obs.armClock < ARMED_DURATION_MS))
        /\ (pc = "client" /\ v5.systemArmed /\ obs'.lastReq # "disarm")
            => v5'.systemArmed
        /\ (pc = "client" /\ obs'.lastReq = "arm") => v5'.systemArmed ]_vars

(* C2 witness: the timer expired in a session that an arm command issued   *)
(* while armed had restarted.                                              *)
C2_Witness ==
    /\ obs.lastReq = "expired" /\ obs.arms = 2 /\ obs.reqs = 2
    /\ ~v5.systemArmed
    /\ clock - obs.armClock = ARMED_DURATION_MS

(* C3: in a session, an excursion that began with the detector Idle has    *)
(* seen exactly one rising edge once it has lasted the type's duration and *)
(* none before, and a rising edge stamps lastMotionTimestamp_ms.           *)
C3_ExactlyOneRisingEdge ==
    /\ \A T \in Types :
          (obs.exc[T].start # -1 /\ obs.exc[T].clean)
              => obs.exc[T].edges =
                    (IF obs.tickClock - obs.exc[T].start >= V5_Duration(T) THEN 1 ELSE 0)
    /\ (pc = "client" /\ obs.edgeTick) => v5.lastMotionTimestamp_ms = millis

(* C4: a sustained flag is set only during an excursion, and when the      *)
(* excursion began with the detector Idle only once it has lasted the      *)
(* type's duration; a tick at or below the threshold leaves the detector   *)
(* Idle with its timer cleared.                                            *)
C4_SustainedOnlyAfterDuration ==
    \A T \in Types :
        /\ V5_Flag(v5, T) => obs.exc[T].start # -1
        /\ (obs.exc[T].start # -1 /\ obs.exc[T].clean
              /\ obs.tickClock - obs.exc[T].start < V5_Duration(T))
              => (~V5_Flag(v5, T) /\ obs.exc[T].edges = 0)
        /\ (obs.ticked /\ obs.exc[T].start = -1) => V5_Idle(v5, T)

(* C4 witness: a lift excursion from Idle has lasted the duration and is   *)
(* Sustained while the tilt detector, below threshold, is Idle.            *)
C4_Witness ==
    /\ v5.isSustainedLift /\ obs.exc["Lift"].clean
    /\ obs.tickClock - obs.exc["Lift"].start >= V5_SUSTAINED_LIFT_DURATION_MS
    /\ obs.ticked /\ obs.exc["Tilt"].start = -1 /\ V5_Idle(v5, "Tilt")

(* C5: at the end of every loop iteration the alert indicators are on only *)
(* if the system is armed.                                                 *)
C5_AlertOnlyWhileArmed ==
    pc = "client" =>
        ((v5.webShowsMotionActive \/ v5.ledIndicatesMotion) => v5.systemArmed)

(* C10: once disarmed (by command or by timer expiry) every candidate      *)
(* timer is zero and every sustained flag is false.                        *)
C10_DisarmClearsDetectors ==
    ~v5.systemArmed => \A T \in Types : V5_Idle(v5, T)

(* C14: in the scenario (armed at rest, rolled 6 degrees for 600 ms, then  *)
(* at rest) the tilt flag rises in exactly one loop iteration, the first   *)
(* tick at least V5_SUSTAINED_TILT_DURATION_MS after the excursion began,  *)
(* and once V5_WEB_MOTION_INDICATOR_DURATION_MS have passed since then the *)
(* alert indicator is off and stays off.                                   *)
C14_OneTiltEdgeThenQuiet ==
    /\ [][ (sketch = "v5" /\ pc = "body")
            => ((~v5.isSustainedTilt /\ v5'.isSustainedTilt)
                    <=> clock = ExcursionStart + V5_SUSTAINED_TILT_DURATION_MS) ]_vars
    /\ []((sketch = "v5" /\ pc = "client"
             /\ clock >= ExcursionStart + V5_SUSTAINED_TILT_DURATION_MS
                            + V5_WEB_MOTION_INDICATOR_DURATION_MS)
            => ~v5.webShowsMotionActive)

(* C20: a step that begins and ends with the system disarmed sets no       *)
(* sustained flag, changes no candidate timer, leaves                      *)
(* lastMotionTimestamp_ms as it was or resets it to 0, and leaves the      *)
(* accumulated yaw as it was.                                              *)
C20_DisarmedFrame ==
    [][ (sketch = "v5" /\ ~v5.systemArmed /\ ~v5'.systemArmed)
        => /\ \A T \in Types : /\ V5_Flag(v5', T) => V5_Flag(v5, T)
                                /\ V5_Timer(v5', T) = V5_Timer(v5, T)
           /\ v5'.lastMotionTimestamp_ms \in {v5.lastMotionTimestamp_ms, 0}
           /\ v5'.currentYaw_deg = v5.currentYaw_deg ]_vars

(* C20 witness: disarmed by command after a session in which yaw           *)
(* accumulated and a tilt candidate was pending, the latest loop iteration *)
(* read the device rolled and turning.                                     *)
C20_Witness ==
    /\ sketch = "v5" /\ pc = "client" /\ ~v5.systemArmed
    /\ obs.arms >= 1 /\ obs.lastReq = "none"
    /\ v5.lastTelemetryReadTime_ms = millis /\ v5.currentAcceleration = Spin
    /\ v5.currentYaw_deg # 0
    /\ v5.currentRoll_deg - v5.baseRoll_deg > V5_TILT_THRESHOLD

-----------------------------------------------------------------------------
(* Observer of the two sketches that keep a vector log.                    *)
(*   loops, shorts  as for the v5 sketch                                   *)
(*   at             clock at which each entry of the log was appended      *)
(*   tiltEdge, slideEdge  the latest loop iteration set the detector's     *)
(*                  flag, false before                                     *)
(*   overallEdge    (first sketch) it saw the overall motion state rise    *)
(*   attempts       appends it attempted                                   *)
(*   accepted       one of them passed the debounce test                   *)
(*   sinceAppend    ms from the latest append before it to it (-1: the     *)
(*                  log was empty)                                         *)
(*   appended       it changed the log                                     *)
LogObs0 == [loops |-> 0, shorts |-> 0, at |-> << >>,
            tiltEdge |-> FALSE, slideEdge |-> FALSE, overallEdge |-> FALSE,
            attempts |-> 0, accepted |-> FALSE, sinceAppend |-> -1, appended |-> FALSE]

Last(q) == q[Len(q)]

LogObsStep(o, d, interval, oldLog, newLog, tiltEdge, slideEdge, overallEdge,
           attempts, accepted) ==
    [o EXCEPT !.loops = @ + 1,
              !.shorts = IF d < interval THEN @ + 1 ELSE @,
              !.tiltEdge = tiltEdge, !.slideEdge = slideEdge,
              !.overallEdge = overallEdge,
              !.attempts = attempts, !.accepted = accepted,
              !.sinceAppend = IF o.at = << >> THEN -1 ELSE clock + d - Last(o.at),
              !.appended = (newLog # oldLog),
              !.at = IF newLog = oldLog THEN @
                     ELSE Append(IF Len(newLog) > Len(oldLog) THEN @ ELSE Tail(@),
                                 clock + d)]

MaxLoopsLog == 13

(* d ms after the previous loop iteration ended the next one runs. *)
LogTick(d, interval) ==
    /\ clock + d <= MaxClock
    /\ obs.loops < MaxLoopsLog
    /\ d < interval => obs.shorts < MaxShortSteps
    /\ clock' = clock + d
    /\ millis' = UAdd(millis, d)

(* loop() of the first sketch; its request handlers change no state.       *)
MD1Loop(d, s) ==
    /\ sketch = "md1" /\ pc = "client"
    /\ LogTick(d, MD1_telemetryReadInterval)
    /\ LET currentMillisInLoop == millis'
           a1 == MD1_telemetry(md1, currentMillisInLoop, s)
           a4 == MD1_loopTail(a1, currentMillisInLoop)
           overallEdge == /\ a1.deviceIsTiltingSustained \/ a1.deviceIsSlidingSustained
                          /\ ~md1.prevOverallMotionState
       IN /\ md1' = a4
          /\ obs' = LogObsStep(obs, d, MD1_telemetryReadInterval,
                        md1.motionLog, a4.motionLog,
                        ~md1.deviceIsTiltingSustained /\ a1.deviceIsTiltingSustained,
                        ~md1.deviceIsSlidingSustained /\ a1.deviceIsSlidingSustained,
                        overallEdge,
                        IF overallEdge THEN 1 ELSE 0,
                        overallEdge /\ USub(currentMillisInLoop, md1.lastTimeEntryAddedToLog)
                                           >= MIN_INTERVAL_BETWEEN_LOG_ENTRIES)
    /\ UNCHANGED <<sketch, pc, md3, notMD>>

(* loop() of the coaster sketch; its request handler changes no state.     *)
MD3Loop(d, s) ==
    /\ sketch = "md3" /\ pc = "client"
    /\ LogTick(d, MD3_TELEMETRY_READ_INTERVAL_MS)
    /\ LET currentTime_ms == millis'
           a1 == MD3_telemetry(md3, currentTime_ms, s)
           a2 == MD3_updateSystemIndicatorsAndLogging(a1, currentTime_ms)
           tiltEdge == ~md3.isSustainedTilt /\ a1.isSustainedTilt
           slideEdge == ~md3.isSustainedSlide /\ a1.isSustainedSlide
           n == (IF tiltEdge THEN 1 ELSE 0) + (IF slideEdge THEN 1 ELSE 0)
       IN /\ md3' = a2
          /\ obs' = LogObsStep(obs, d, MD3_TELEMETRY_READ_INTERVAL_MS,
                        md3.motionEventLog, a2.motionEventLog,
                        tiltEdge, slideEdge, FALSE, n,
                        /\ n > 0
                        /\ ~(/\ USub(currentTime_ms, md3.lastLogEntryTime_ms)
                                    < MIN_LOG_INTERVAL_MS
                             /\ md3.motionEventLog # << >>))
    /\ UNCHANGED <<sketch, pc, md1, notMD>>

(* Samples: at rest, nudged (rolled 0.58 deg), shoved (1 m/s^2 along y).   *)
Nudge == Sample(0, 10, 981, 0)
Shove == Sample(0, 100, 981, 0)
LogSamples == {Rest, Nudge, Shove}
LogSteps == {50}

(* A log of n entries appended gap ms apart, the latest gap ms before now. *)
GapOfOldEntries == 1000
MD1_oldLog(n, now) ==
    [i \in 1 .. n |->
        [timestamp |-> USub(now, (n + 1 - i) * GapOfOldEntries), motionType |-> "Tilt",
         accelData |-> Nudge, rollAtDetection |-> atan2_cdeg(Nudge.ay, Nudge.az),
         pitchAtDetection |-> 0]]
MD3_oldLog(n, now) ==
    [i \in 1 .. n |->
        [timestamp_ms |-> USub(now, (n + 1 - i) * GapOfOldEntries),
         motionType |-> "Tilt Detected",
         rollAtDetection_deg |-> atan2_cdeg(Nudge.ay, Nudge.az),
         pitchAtDetection_deg |-> 0]]
OldClocks(n) == [i \in 1 .. n |-> 0 - (n + 1 - i) * GapOfOldEntries]

(* The device at rest, every loop iteration so far having read the sensor, *)
(* the log holding n entries of earlier episodes.                          *)
MD1_atRest(n, now) ==
    [MD1Globals EXCEPT
        !.current_a = Rest, !.lastTelemetryReadMillis = now,
        !.firstTiltReading = FALSE, !.firstAccelReadingForSlide = FALSE,
        !.motionLog = MD1_oldLog(n, now),
        !.lastTimeEntryAddedToLog = IF n = 0 THEN 0 ELSE USub(now, GapOfOldEntries),
        !.lastMotionDetectedTime = IF n = 0 THEN 0 ELSE USub(now, GapOfOldEntries)]
MD3_atRest(n, now) ==
    [MD3Globals EXCEPT
        !.currentAcceleration = Rest, !.lastTelemetryReadTime_ms = now,
        !.firstTiltCheck = FALSE, !.firstSlideCheck = FALSE,
        !.motionEventLog = MD3_oldLog(n, now),
        !.lastLogEntryTime_ms = IF n = 0 THEN 0 ELSE USub(now, GapOfOldEntries),
        !.lastMotionTimestamp_ms = IF n = 0 THEN 0 ELSE USub(now, GapOfOldEntries)]

(* Initial states: setup() has just returned; or the device has run until  *)
(* shortly before millis() wraps and is at rest, its log empty or one      *)
(* entry short of its capacity.                                            *)
InitLog ==
    /\ sketch \in {"md1", "md3"}
    /\ millis \in BootTimes
    /\ clock = 0
    /\ pc = "client"
    /\ v5 = V5Globals /\ md2 = MD2Globals /\ tg = TGGlobals("tg8")
    /\ md4 = MD4Globals /\ v4 = V4Globals /\ ring = RingAbsent /\ ag = AGGlobals
    /\ \E full \in BOOLEAN :
          LET n1 == IF full THEN MAX_MOTION_LOG_ENTRIES - 1 ELSE 0
              n3 == IF full THEN MAX_LOG_ENTRIES - 1 ELSE 0
          IN /\ full => millis # BootMillis
             /\ md1 = IF sketch = "md1" /\ millis # BootMillis
                      THEN MD1_atRest(n1, millis) ELSE MD1Globals
             /\ md3 = IF sketch = "md3" /\ millis # BootMillis
                      THEN MD3_atRest(n3, millis) ELSE MD3Globals
             /\ obs = [LogObs0 EXCEPT !.at =
                          IF millis = BootMillis THEN << >>
                          ELSE OldClocks(IF sketch = "md1" THEN n1 ELSE n3)]

NextLog ==
    \/ \E d \in LogSteps, s \in LogSamples : MD1Loop(d, s)
    \/ \E d \in LogSteps, s \in LogSamples : MD3Loop(d, s)

SpecLog == InitLog /\ [][NextLog]_vars

(* The log of the running sketch, its capacity, its last-append time and   *)
(* its minimum interval.                                                   *)
TheLog == IF sketch = "md1" THEN md1.motionLog ELSE md3.motionEventLog
TheCapacity == IF sketch = "md1" THEN MAX_MOTION_LOG_ENTRIES ELSE MAX_LOG_ENTRIES
TheLastAppend == IF sketch = "md1" THEN md1.lastTimeEntryAddedToLog
                 ELSE md3.lastLogEntryTime_ms
TheInterval == IF sketch = "md1" THEN MIN_INTERVAL_BETWEEN_LOG_ENTRIES
               ELSE MIN_LOG_INTERVAL_MS
Stamp(e) == IF sketch = "md1" THEN e.timestamp ELSE e.timestamp_ms

-----------------------------------------------------------------------------
(*                          Claims: the vector logs                        *)

(* C6: the log never holds more than its capacity; an append that passes   *)
(* the debounce test stores the new entry as the newest, after removing    *)
(* exactly the oldest entry when the log was full, and keeps the other     *)
(* entries in their order; nothing else changes the log.                   *)
C6_LogBoundedFifo ==
    /\ [](Len(TheLog) <= TheCapacity)
    /\ [][ IF obs'.accepted
           THEN /\ TheLog' # << >>
                /\ Stamp(Last(TheLog')) = millis'
                /\ TheLog' = Append(IF Len(TheLog) >= TheCapacity
                                    THEN Tail(TheLog) ELSE TheLog, Last(TheLog'))
           ELSE TheLog' = TheLog ]_vars

(* C6 witness: a log filled during the run has taken a further entry. *)
C6_Witness ==
    /\ Len(TheLog) = TheCapacity
    /\ obs.accepted /\ obs.appended
    /\ Len(obs.at) = TheCapacity /\ obs.at[1] < 0 /\ obs.at[TheCapacity - 1] > 0

(* C8: any two consecutive entries of the log were appended at least the   *)
(* minimum log interval apart; a loop iteration that attempts an append    *)
(* less than the interval after the previous one leaves the log and the    *)
(* last-append time as they were, and the last-append time changes only    *)
(* with the log.                                                           *)
C8_LogDebounce ==
    /\ [](\A i \in 1 .. (Len(obs.at) - 1) : obs.at[i + 1] - obs.at[i] >= TheInterval)
    /\ [][ /\ (obs'.attempts > 0 /\ obs.at # << >> /\ clock' - Last(obs.at) < TheInterval)
               => (TheLog' = TheLog /\ TheLastAppend' = TheLastAppend)
           /\ (TheLog' = TheLog) => (TheLastAppend' = TheLastAppend) ]_vars

(* C8 witness: a loop iteration attempted an append less than the interval *)
(* after an entry appended during the run, and the log did not change.     *)
C8_Witness ==
    /\ obs.attempts > 0 /\ ~obs.appended
    /\ obs.sinceAppend >= 0 /\ obs.sinceAppend < TheInterval
    /\ obs.at # << >> /\ Last(obs.at) > 0

(* C9 as stated: in the first sketch every rising edge of a detector flag  *)
(* at least 300 ms after the last append produces a log entry and restarts *)
(* lastMotionDetectedTime.                                                 *)
C9_EveryDetectorEdgeLogged ==
    (sketch = "md1" /\ (obs.tiltEdge \/ obs.slideEdge)
        /\ obs.sinceAppend >= MIN_INTERVAL_BETWEEN_LOG_ENTRIES)
        => (obs.appended /\ md1.lastMotionDetectedTime = millis)

(* C9 amended: in the first sketch every rising edge of the overall motion *)
(* state at least 300 ms after the last append produces a log entry and    *)
(* restarts lastMotionDetectedTime.                                        *)
C9_OverallEdgeLogged ==
    (sketch = "md1" /\ obs.overallEdge
        /\ obs.sinceAppend >= MIN_INTERVAL_BETWEEN_LOG_ENTRIES)
        => /\ obs.appended /\ md1.motionLog # << >>
           /\ Last(md1.motionLog).timestamp = millis
           /\ md1.lastMotionDetectedTime = millis

(* C9 witness: the overall motion state rose exactly 300 ms after the      *)
(* entry of an earlier episode of the run was appended, and was logged.    *)
C9_Witness ==
    /\ sketch = "md1" /\ obs.overallEdge /\ obs.appended
    /\ obs.sinceAppend = MIN_INTERVAL_BETWEEN_LOG_ENTRIES
    /\ Len(obs.at) >= 2 /\ obs.at[Len(obs.at) - 1] > 0
    /\ md1.lastMotionDetectedTime = millis

(* C19: in the coaster sketch, when a loop iteration sets both the tilt    *)
(* and the slide flag, the log holds an entry of each type stamped with    *)
(* that iteration's time.                                                  *)
C19_BothTypesLogged ==
    (sketch = "md3" /\ obs.tiltEdge /\ obs.slideEdge)
        => \A type \in {"Tilt Detected", "Slide Detected"} :
              \E i \in 1 .. Len(md3.motionEventLog) :
                  /\ md3.motionEventLog[i].motionType = type
                  /\ md3.motionEventLog[i].timestamp_ms = millis

-----------------------------------------------------------------------------
(* Observer of the AuraGuard sketch.                                       *)
(*   loops, reqs  as for the v5 sketch                                     *)
(*   jolts        loop iterations so far in which the MPU raised its       *)
(*                motion interrupt                                         *)
(*   lastReq      request served by the latest handleClient()              *)
(*   motion       motionDetectedThisCycle of the latest loop iteration     *)
(*   source       its detectionSource                                      *)
(*   checked      the latest loop iteration called checkForSlowMove()      *)
(*   slow         and it returned true                                     *)
(*   diff         the deviation the latest read of the accelerometer left  *)
(*   armSeen      an arm command has been served                           *)
(*   sinceArm     magnitudes read since the latest arm command, latest     *)
(*                last (the first SLOW_MOVE_SAMPLE_COUNT are kept)         *)
(*   justEstablished  the latest loop iteration established the baseline   *)
(*   resp         the latest /state response (empty before the first)      *)
(*   reported     /state responses with motionEventForWebUI true since a   *)
(*                motion event last set the flag                           *)
AGObs0 == [loops |-> 0, reqs |-> 0, jolts |-> 0, lastReq |-> "none",
           motion |-> FALSE, source |-> "",
           checked |-> FALSE, slow |-> FALSE, diff |-> 0,
           armSeen |-> FALSE, sinceArm |-> << >>, justEstablished |-> FALSE,
           resp |-> << >>, reported |-> 0,
           status |-> 0]      \* status code of the last response (0: no request)

MaxLoopsAura == 6
MaxJolts == 3

(* The second of the day the real-time clock shows, noon in the initial    *)
(* state.                                                                  *)
WallAtInit == 12 * 3600
Wall(c) == ((WallAtInit * 1000 + c) \div 1000) % 86400

AGTick(d, max) ==
    /\ clock + d <= MaxClock
    /\ obs.loops < max
    /\ clock' = clock + d
    /\ millis' = UAdd(millis, d)
    /\ pc' = "body"

AGNoRequest(d, max) ==
    /\ sketch = "ag" /\ pc = "client"
    /\ AGTick(d, max)
    /\ obs' = [obs EXCEPT !.loops = @ + 1, !.lastReq = "none", !.status = 0]
    /\ UNCHANGED <<sketch, ag, notAG>>

AGHttpArmCommand(d, max, hasArg, reqArmState) ==
    /\ sketch = "ag" /\ pc = "client"
    /\ AGTick(d, max)
    /\ obs.reqs < MaxRequests
    /\ ag' = AG_httpHandleArmCommand(ag, millis', hasArg, reqArmState)
    /\ obs' = [obs EXCEPT !.loops = @ + 1, !.reqs = @ + 1,
                          !.lastReq = IF ~hasArg THEN "bad"
                                      ELSE IF reqArmState THEN "arm" ELSE "disarm",
                          !.status = AG_armStatus(hasArg),
                          !.armSeen = @ \/ (hasArg /\ reqArmState),
                          !.sinceArm = IF hasArg /\ reqArmState THEN << >> ELSE @]
    /\ UNCHANGED <<sketch, notAG>>

AGHttpStateRequest(d, max) ==
    /\ sketch = "ag" /\ pc = "client"
    /\ AGTick(d, max)
    /\ obs.reqs < MaxRequests
    /\ ag' = AG_httpHandleStateRequest(ag)
    /\ obs' = [obs EXCEPT !.loops = @ + 1, !.reqs = @ + 1, !.lastReq = "state",
                          !.status = 200,
                          !.resp = <<AG_stateResponse(ag)>>,
                          !.reported = IF ag.g_motionEventForWebUI THEN @ + 1 ELSE @]
    /\ UNCHANGED <<sketch, notAG>>

AGHttpResetLogCommand(d, max) ==
    /\ sketch = "ag" /\ pc = "client"
    /\ AGTick(d, max)
    /\ obs.reqs < MaxRequests
    /\ ag' = AG_httpHandleResetLogCommand(ag)
    /\ obs' = [obs EXCEPT !.loops = @ + 1, !.reqs = @ + 1, !.lastReq = "resetlog",
                          !.status = AG_resetLogStatus(ag)]
    /\ UNCHANGED <<sketch, notAG>>

(* The rest of loop(): processMotionDetection() and handleRawMotionLED().  *)
AG_loopBody(st, t, wall, hw, s) ==
    AG_handleRawMotionLED(AG_processMotionDetection(st, t, wall, hw, s).st, t)

AGLoop(hw, s) ==
    /\ sketch = "ag" /\ pc = "body"
    /\ hw => obs.jolts < MaxJolts
    /\ LET r == AG_processMotionDetection(ag, millis, Wall(clock), hw, s)
       IN /\ ag' = AG_handleRawMotionLED(r.st, millis)
          /\ obs' = [obs EXCEPT
                        !.motion = r.motion, !.source = r.source,
                        !.jolts = IF hw THEN @ + 1 ELSE @,
                        !.checked = r.checked, !.slow = r.slow, !.diff = r.diff,
                        !.sinceArm =
                            IF r.read /\ obs.armSeen /\ Len(@) < SLOW_MOVE_SAMPLE_COUNT
                            THEN Append(@, AG_calculateAccelMagnitude(s)) ELSE @,
                        !.justEstablished =
                            ~ag.g_baselineEstablished /\ r.st.g_baselineEstablished,
                        !.reported = IF r.motion /\ ag.g_isSystemArmed THEN 0 ELSE @]
    /\ pc' = "client"
    /\ UNCHANGED <<sketch, millis, clock, notAG>>

(* The device idle and disarmed at time t, at rest long enough for the     *)
(* baseline to have settled.                                               *)
AG_idle(t, ntp) ==
    LET m == AG_calculateAccelMagnitude(Rest)
    IN [AGGlobals EXCEPT
          !.g_ntpTimeSyncd = ntp, !.g_lastAccelReadTime = t,
          !.g_baselineEstablished = TRUE, !.g_accelBaselineMagnitude = m,
          !.g_accelMagnitudeSamples = [i \in 0 .. (SLOW_MOVE_SAMPLE_COUNT - 1) |-> m]]

(* Armed k loop iterations ago, one iteration every ACCEL_READ_INTERVAL_MS  *)
(* and a jolt in each since, the device otherwise at rest: the log holds k *)
(* entries (k > SLOW_MOVE_SAMPLE_COUNT).  The latest of these iterations   *)
(* is run on the globals the earlier ones leave.                           *)
AG_armedWithLog(k, now, ntp) ==
    LET span == k * ACCEL_READ_INTERVAL_MS
        t0 == USub(now, span)
        armed == AG_httpHandleArmCommand(AG_idle(t0, ntp), t0, TRUE, TRUE)
        at(i) == (i + 1) * ACCEL_READ_INTERVAL_MS     \* ms from the arm to entry i
        before ==
            [AG_idle(USub(now, ACCEL_READ_INTERVAL_MS), ntp) EXCEPT
                !.g_isSystemArmed = TRUE, !.g_armingTimeMillis = t0,
                !.g_motionEventForWebUI = TRUE,
                !.g_accelSampleIndex = (k - 1) % SLOW_MOVE_SAMPLE_COUNT,
                !.g_motionLogCount = k - 1,
                !.g_motionLog =
                    [i \in 0 .. (AG_MAX_MOTION_LOG_ENTRIES - 1) |->
                        IF i < k - 1
                        THEN AG_getFormattedTime(armed, UAdd(t0, at(i)),
                                                 Wall(at(i) - span))
                        ELSE EmptyString]]
    IN AG_loopBody(before, now, Wall(0), TRUE, Rest)

(* Initial states: setup() has just returned (with or without NTP time);   *)
(* or the device, shortly before millis() wraps, has been armed and jolted *)
(* until its log is one entry short of full.                               *)
InitAura ==
    /\ sketch = "ag"
    /\ millis \in BootTimes
    /\ clock = 0
    /\ pc = "client"
    /\ v5 = V5Globals /\ md1 = MD1Globals /\ md2 = MD2Globals /\ tg = TGGlobals("tg8")
    /\ md4 = MD4Globals /\ v4 = V4Globals /\ ring = RingAbsent /\ md3 = MD3Globals
    /\ \E ntp \in BOOLEAN :
          ag = IF millis = BootMillis
               THEN [AGGlobals EXCEPT !.g_ntpTimeSyncd = ntp,
                                      !.g_lastAccelReadTime = BootMillis]
               ELSE AG_armedWithLog(AG_MAX_MOTION_LOG_ENTRIES - 1, millis, ntp)
    /\ obs = AGObs0

AuraSteps == {100}
AuraSamples == {Rest, LiftPose}
AuraStillSamples == {Rest}    \* the device lies still between the jolts

NextAura ==
    \/ \E d \in AuraSteps : AGNoRequest(d, MaxLoopsAura)
    \/ \E d \in AuraSteps, hasArg \in BOOLEAN, reqArmState \in BOOLEAN :
          AGHttpArmCommand(d, MaxLoopsAura, hasArg, reqArmState)
    \/ \E d \in AuraSteps : AGHttpStateRequest(d, MaxLoopsAura)
    \/ \E d \in AuraSteps : AGHttpResetLogCommand(d, MaxLoopsAura)
    \/ \E hw \in BOOLEAN, s \in AuraStillSamples : AGLoop(hw, s)

SpecAura == InitAura /\ [][NextAura]_vars

(* The slow-move detector alone: no interrupt of the MPU, arm commands the *)
(* only requests, runs long enough for a candidate to be confirmed.        *)
MaxLoopsSlow == 10

InitAuraSlow ==
    /\ sketch = "ag"
    /\ millis \in BootTimes
    /\ clock = 0
    /\ pc = "client"
    /\ v5 = V5Globals /\ md1 = MD1Globals /\ md2 = MD2Globals /\ tg = TGGlobals("tg8")
    /\ md4 = MD4Globals /\ v4 = V4Globals /\ ring = RingAbsent /\ md3 = MD3Globals
    /\ \E ntp \in BOOLEAN :
          ag = IF millis = BootMillis
               THEN [AGGlobals EXCEPT !.g_ntpTimeSyncd = ntp,
                                      !.g_lastAccelReadTime = BootMillis]
               ELSE AG_idle(millis, ntp)
    /\ obs = AGObs0

NextAuraSlow ==
    \/ \E d \in AuraSteps : AGNoRequest(d, MaxLoopsSlow)
    \/ \E d \in AuraSteps, hasArg \in BOOLEAN, reqArmState \in BOOLEAN :
          AGHttpArmCommand(d, MaxLoopsSlow, hasArg, reqArmState)
    \/ \E s \in AuraSamples : AGLoop(FALSE, s)

SpecAuraSlow == InitAuraSlow /\ [][NextAuraSlow]_vars

-----------------------------------------------------------------------------
(*                         Claims: AuraGuard sketch                        *)

(* C7: when the log holds AG_MAX_MOTION_LOG_ENTRIES entries and a loop     *)
(* iteration detects motion while armed, the oldest entry is evicted and   *)
(* the new event is stored as the newest entry.                            *)
C7_FullLogEvictsOldest ==
    [][ (sketch = "ag" /\ pc = "body" /\ ag.g_isSystemArmed
            /\ ag.g_motionLogCount = AG_MAX_MOTION_LOG_ENTRIES /\ obs'.motion)
        => /\ ag'.g_motionLogCount = AG_MAX_MOTION_LOG_ENTRIES
           /\ \A i \in 0 .. (AG_MAX_MOTION_LOG_ENTRIES - 2) :
                  ag'.g_motionLog[i] = ag.g_motionLog[i + 1]
           /\ ag'.g_motionLog[AG_MAX_MOTION_LOG_ENTRIES - 1]
                  = AG_getFormattedTime(ag, millis, Wall(clock)) ]_vars

RECURSIVE SumSeq(_)
SumSeq(q) == IF q = << >> THEN 0 ELSE Head(q) + SumSeq(Tail(q))

(* C11: after an arm command, when a loop iteration establishes the        *)
(* baseline, g_accelBaselineMagnitude is the average of the                *)
(* SLOW_MOVE_SAMPLE_COUNT magnitudes read since that arm command.          *)
C11_BaselineIsAverageSinceArm ==
    (sketch = "ag" /\ pc = "client" /\ obs.armSeen /\ obs.justEstablished)
        => /\ Len(obs.sinceArm) = SLOW_MOVE_SAMPLE_COUNT
           /\ ag.g_accelBaselineMagnitude
                  = SumSeq(obs.sinceArm) \div SLOW_MOVE_SAMPLE_COUNT

(* C12: an evaluation of the slow-move detector whose smoothed deviation   *)
(* exceeds SLOW_MOVE_THRESHOLD_G leaves g_accelBaselineMagnitude as it     *)
(* was.                                                                    *)
C12_BaselineKeptWhileDeviating ==
    [][ (sketch = "ag" /\ pc = "body" /\ obs'.checked
            /\ obs'.diff > SLOW_MOVE_THRESHOLD_G)
        => ag'.g_accelBaselineMagnitude = ag.g_accelBaselineMagnitude ]_vars

(* C13: while the baseline is not established no slow-move candidate is   *)
(* pending, and a loop iteration that leaves the baseline unestablished    *)
(* reports no slow move and leaves the candidate timer as it was.          *)
C13_NoSlowMoveBeforeBaseline ==
    /\ [](sketch = "ag" /\ ~ag.g_baselineEstablished => ~ag.g_potentialSlowMove)
    /\ [][ (sketch = "ag" /\ pc = "body" /\ ~ag'.g_baselineEstablished)
            => /\ ~obs'.slow /\ obs'.source # "SW"
               /\ ~ag'.g_newSlowMoveDetectedBySW
               /\ ag'.g_slowMoveStartTime = ag.g_slowMoveStartTime
               /\ ~ag'.g_potentialSlowMove ]_vars

(* C13 witness: an arm command interrupted a pending candidate, and four   *)
(* samples, the latest off the baseline by more than the threshold, have   *)
(* been read since without the baseline being established.                 *)
C13_Witness ==
    /\ sketch = "ag" /\ pc = "client" /\ obs.armSeen
    /\ ~ag.g_baselineEstablished
    /\ Len(obs.sinceArm) = SLOW_MOVE_SAMPLE_COUNT - 1
    /\ Last(obs.sinceArm) = AG_calculateAccelMagnitude(LiftPose)
    /\ obs.diff > SLOW_MOVE_THRESHOLD_G
    /\ ag.g_slowMoveStartTime # 0
(* C15: every arm command leaves the log empty; while the system stays     *)
(* armed, a step that serves neither an arm nor a /resetlog command (a     *)
(* /state poll, any other request, the rest of the loop iteration) keeps   *)
(* every entry of the log, in place.                                       *)
C15_ArmEmptiesLogElseKept ==
    [][ sketch = "ag" =>
          /\ (pc = "client" /\ obs'.lastReq = "arm") => ag'.g_motionLogCount = 0
          /\ (ag.g_isSystemArmed /\ ag'.g_isSystemArmed
                 /\ ~(pc = "client" /\ obs'.lastReq \in {"arm", "resetlog"}))
              => /\ ag'.g_motionLogCount >= ag.g_motionLogCount
                 /\ \A i \in 0 .. (ag.g_motionLogCount - 1) :
                        ag'.g_motionLog[i] = ag.g_motionLog[i] ]_vars

(* C15 witness: an arm command emptied a log that held entries (the array  *)
(* still holds one beyond the count), an event was logged since, and a     *)
(* /state poll has just reported it and left it in the log.                *)
C15_Witness ==
    /\ sketch = "ag" /\ pc = "body" /\ obs.armSeen /\ obs.lastReq = "state"
    /\ ag.g_isSystemArmed /\ ag.g_motionLogCount = 1
    /\ ag.g_motionLog[1] # EmptyString
    /\ Len(obs.resp[1].log) = 1 /\ obs.resp[1].log[1] = ag.g_motionLog[0]
(* C16: a /state response returns the entries the log holds, also after a  *)
(* disarm command.                                                         *)
C16_LogReturnedAfterDisarm ==
    (sketch = "ag" /\ pc = "body" /\ obs.lastReq = "state")
        => obs.resp[1].log = [i \in 1 .. ag.g_motionLogCount |-> ag.g_motionLog[i - 1]]

(* C17: a /state request reports g_motionEventForWebUI as it was, clears   *)
(* it and changes nothing else; after each setting of the flag by a motion *)
(* event at most one response reports it true.                             *)
C17_StateOnlyConsumesFlag ==
    /\ [][ (sketch = "ag" /\ pc = "client" /\ obs'.lastReq = "state")
            => /\ ag' = [ag EXCEPT !.g_motionEventForWebUI = FALSE]
               /\ obs'.resp[1].motionEventForWebUI = ag.g_motionEventForWebUI ]_vars
    /\ [](sketch = "ag" => obs.reported <= 1)

(* C17 witness: a motion event set the flag, one poll reported it, and the *)
(* next poll has just reported it false.                                   *)
C17_Witness ==
    /\ sketch = "ag" /\ pc = "body" /\ obs.lastReq = "state"
    /\ obs.jolts >= 1 /\ obs.reported = 1
    /\ ~obs.resp[1].motionEventForWebUI
    /\ ag.g_isSystemArmed /\ ag.g_motionLogCount >= 1
-----------------------------------------------------------------------------
(* Actions of the settings test sketch: the handlers of its web server.    *)
(* Observer: the latest request, whether it was authenticated, and its     *)
(* form arguments.                                                         *)
MD2Obs0 == [lastReq |-> "none", authenticated |-> FALSE, args |-> << >>]

MD2HandleUpdateSettings(authenticated, args) ==
    /\ sketch = "md2" /\ pc = "client"
    /\ md2' = MD2_handleUpdateSettings(md2, authenticated, args)
    /\ obs' = [lastReq |-> "updatesettings", authenticated |-> authenticated,
               args |-> args]
    /\ UNCHANGED <<sketch, millis, clock, pc, notMD2>>

MD2HandleResetSettings(authenticated) ==
    /\ sketch = "md2" /\ pc = "client"
    /\ md2' = MD2_handleResetSettings(md2, authenticated)
    /\ obs' = [lastReq |-> "resetsettings", authenticated |-> authenticated,
               args |-> << >>]
    /\ UNCHANGED <<sketch, millis, clock, pc, notMD2>>

MD2HandleUpdateNote(authenticated, hasArg, note) ==
    /\ sketch = "md2" /\ pc = "client"
    /\ md2' = MD2_handleUpdateNote(md2, authenticated, hasArg, note)
    /\ obs' = [lastReq |-> "updatenote", authenticated |-> authenticated,
               args |-> IF hasArg THEN <<[name |-> "usernote", val |-> note]>>
                        ELSE << >>]
    /\ UNCHANGED <<sketch, millis, clock, pc, notMD2>>

(* Form values: numbers inside, on and outside the bounds of both ranges,  *)
(* negative numbers, and text that is no number.                           *)
FormValues ==
    {<<"0", ".", "0", "4", "9">>,
     <<"2", ".", "5">>,
     <<"5", ".", "0", "0", "1">>,
     <<"5", "0">>,
     <<"3", "0", "0", "1">>,
     <<"-", "5">>,
     <<"x">>}
FormArgs ==
    [name : {"slide_thresh_accel", "slide_duration_ms"}, val : FormValues]
        \cup {[name |-> "tilt_thresh_deg", val |-> <<"2", ".", "5">>]}
MaxArgs == 2
ArgLists == UNION {[1 .. n -> FormArgs] : n \in 0 .. MaxArgs}
LongNoteLength == 101
Notes == {<<"o", "k">>, [i \in 1 .. LongNoteLength |-> "a"]}

InitMD2 ==
    /\ sketch = "md2"
    /\ millis = BootMillis
    /\ clock = 0
    /\ pc = "client"
    /\ v5 = V5Globals /\ md1 = MD1Globals /\ md2 = MD2Globals /\ tg = TGGlobals("tg8")
    /\ md4 = MD4Globals /\ v4 = V4Globals /\ ring = RingAbsent /\ md3 = MD3Globals
    /\ ag = AGGlobals
    /\ obs = MD2Obs0

NextMD2 ==
    \/ \E authenticated \in BOOLEAN, args \in ArgLists :
          MD2HandleUpdateSettings(authenticated, args)
    \/ \E authenticated \in BOOLEAN : MD2HandleResetSettings(authenticated)
    \/ \E authenticated \in BOOLEAN, hasArg \in BOOLEAN, note \in Notes :
          MD2HandleUpdateNote(authenticated, hasArg, note)

SpecMD2 == InitMD2 /\ [][NextMD2]_vars

-----------------------------------------------------------------------------
(*                      Claims: settings test sketch                       *)

Clamp(v, lo, hi) == IF v < lo THEN lo ELSE IF v > hi THEN hi ELSE v

(* The slide settings after the form arguments, every value clamped to its *)
(* range.                                                                  *)
RECURSIVE ClampedSettings(_, _)
ClampedSettings(st, args) ==
    IF args = << >> THEN st
    ELSE LET a == Head(args)
             next ==
                IF a.name = "slide_thresh_accel"
                THEN [st EXCEPT !.currentSlideThresholdAccel =
                         Clamp(MD2_toFloat(a.val), MD2_SlideThresholdMin,
                               MD2_SlideThresholdMax)]
                ELSE IF a.name = "slide_duration_ms"
                THEN [st EXCEPT !.currentSustainedSlideDurationMs =
                         Clamp(MD2_strtoul(a.val), MD2_SlideDurationMin,
                               MD2_SlideDurationMax)]
                ELSE st
         IN ClampedSettings(next, Tail(args))

(* C18: after an authenticated /updatesettings request every slide         *)
(* threshold and slide duration it submitted is the current setting,       *)
(* clamped to its range when outside it.                                   *)
C18_OutOfRangeClamped ==
    [][ (sketch = "md2" /\ obs'.lastReq = "updatesettings" /\ obs'.authenticated)
        => md2' = ClampedSettings(md2, obs'.args) ]_vars
(* C21: a loop iteration that detects motion appends exactly one entry to  *)
(* the log and sets g_motionEventForWebUI when armed, changes neither when *)
(* disarmed, and in both cases leaves the status LED on.                   *)
C21_MotionLoggedOnceLedOn ==
    [][ (sketch = "ag" /\ pc = "body" /\ obs'.motion)
        => /\ ag.g_isSystemArmed
                => /\ ag'.g_motionLogCount = ag.g_motionLogCount + 1
                   /\ \A i \in 0 .. (ag.g_motionLogCount - 1) :
                          ag'.g_motionLog[i] = ag.g_motionLog[i]
                   /\ ag'.g_motionEventForWebUI
           /\ ~ag.g_isSystemArmed
                => /\ ag'.g_motionLogCount = ag.g_motionLogCount
                   /\ ag'.g_motionLog = ag.g_motionLog
                   /\ ag'.g_motionEventForWebUI = ag.g_motionEventForWebUI
           /\ ag'.statusLed = "HIGH" ]_vars
-----------------------------------------------------------------------------
(* The Tap-Guard sketches as a process: handleClient() serves at most one  *)
(* request, then the rest of loop() runs.                                  *)

MaxLoopsTap == 6
TapSteps == {500, 1001}
TapLevels == {<<"3">>, <<"4">>, <<"0">>, <<"1", "2">>, <<"x">>}

TGObs0 ==
    [ loops |-> 0, lastReq |-> "none",
      int |-> FALSE,        \* the last loop() read a pending motion interrupt
      wasAlert |-> FALSE,   \* alertOn before the last step
      alerts |-> 0,         \* loops that raised the alert
      quiet |-> 0 ]         \* clock of the last motion (or of the start)

TGTick(d) ==
    /\ sketch \in {"tg7", "tg8"} /\ pc = "client"
    /\ clock + d <= MaxClock
    /\ obs.loops < MaxLoopsTap
    /\ clock' = clock + d
    /\ millis' = UAdd(millis, d)
    /\ pc' = "body"
    /\ UNCHANGED <<sketch, notTG>>

TGNoRequest(d) ==
    /\ TGTick(d)
    /\ tg' = tg
    /\ obs' = [obs EXCEPT !.loops = @ + 1, !.lastReq = "none", !.wasAlert = tg.alertOn]

TGArm(d, state) ==
    /\ TGTick(d)
    /\ tg' = TG_hArm(sketch, tg, state)
    /\ obs' = [obs EXCEPT !.loops = @ + 1, !.wasAlert = tg.alertOn,
                          !.lastReq = IF state = "1" THEN "arm" ELSE "disarm"]

TGSens(d, hasArg, val) ==
    /\ TGTick(d)
    /\ tg' = TG_hSens(sketch, tg, hasArg, val)
    /\ obs' = [obs EXCEPT !.loops = @ + 1, !.lastReq = "sens", !.wasAlert = tg.alertOn]

TGState(d) ==
    /\ TGTick(d)
    /\ tg' = tg
    /\ obs' = [obs EXCEPT !.loops = @ + 1, !.lastReq = "state", !.wasAlert = tg.alertOn]

(* int is read only when armed (the && short-circuits). *)
TGLoop(int) ==
    /\ sketch \in {"tg7", "tg8"} /\ pc = "body"
    /\ tg' = TG_loopBody(sketch, tg, millis, int)
    /\ obs' = [obs EXCEPT !.int = tg.armed /\ int, !.wasAlert = tg.alertOn,
                          !.alerts = IF tg.armed /\ int THEN @ + 1 ELSE @,
                          !.quiet = IF tg.armed /\ int THEN clock ELSE @]
    /\ pc' = "client"
    /\ UNCHANGED <<sketch, millis, clock, notTG>>

InitTap ==
    /\ sketch \in {"tg7", "tg8"}
    /\ millis \in BootTimes
    /\ clock = 0
    /\ pc = "client"
    /\ v5 = V5Globals /\ md1 = MD1Globals /\ md2 = MD2Globals /\ md3 = MD3Globals
    /\ ag = AGGlobals /\ md4 = MD4Globals /\ v4 = V4Globals /\ ring = RingAbsent
    /\ tg = TG_setup(sketch)
    /\ obs = TGObs0

NextTap ==
    \/ \E d \in TapSteps : TGNoRequest(d)
    \/ \E d \in TapSteps, state \in {"1", "0", ""} : TGArm(d, state)
    \/ \E d \in TapSteps, hasArg \in BOOLEAN, val \in TapLevels : TGSens(d, hasArg, val)
    \/ \E d \in TapSteps : TGState(d)
    \/ \E int \in BOOLEAN : TGLoop(int)

SpecTap == InitTap /\ [][NextTap]_vars

(* C22: in both Tap-Guard sketches alertOn becomes true only in a loop()   *)
(* that reads a motion interrupt while armed, alertOn implies armed at the *)
(* end of every loop iteration, and a disarm command leaves alertOn false. *)
C22_AlertOnlyWhileArmed ==
    [][ (sketch \in {"tg7", "tg8"})
        => /\ (~tg.alertOn /\ tg'.alertOn) => (pc = "body" /\ tg.armed /\ obs'.int)
           /\ (pc' = "client") => (tg'.alertOn => tg'.armed)
           /\ (pc = "client" /\ obs'.lastReq = "disarm")
                 => (~tg'.alertOn /\ ~tg'.armed) ]_vars

(* The alert was on while armed and a disarm command has been served. *)
C22_Witness ==
    /\ sketch \in {"tg7", "tg8"}
    /\ pc = "body" /\ obs.lastReq = "disarm" /\ obs.wasAlert
    /\ obs.alerts > 0 /\ ~tg.alertOn /\ ~tg.armed

(* C29: in Tap-Guard v8 an alert that has seen no motion for more than     *)
(* 2500 ms is off at the end of the loop iteration, the system still armed.*)
C29_AlertTimesOut ==
    (sketch = "tg8" /\ pc = "client" /\ obs.loops > 0 /\ tg.armed
        /\ USub(millis, tg.lastMove) > TG_ALERT_TIMEOUT_V8 /\ obs.wasAlert)
    => ~tg.alertOn
-----------------------------------------------------------------------------
(* The always-on sketches (motion_detection, motion_detection3,            *)
(* Motion_Detection4, v4) under excursions: every loop iteration reads a sample.              *)
(* Observer, per detector (T tilt, S slide):                               *)
(*   above   the deviation tested at the latest tick was above threshold   *)
(*   flag    the sustained flag before the latest tick                     *)
(*   edge    the latest tick set the flag (a rising edge)                  *)
(*   fired   a rising edge happened at an earlier tick of the excursion    *)
(*           that is still going on                                        *)
(*   toggles changes of the tilt deviation between above and not above     *)

MaxLoopsSustain == 40
MaxToggles == 3
MaxResets == 1
SustainSteps == {100}
SustainSamples == {Rest, Shove}

SustainObs0 ==
    [ loops |-> 0, toggles |-> 0, resets |-> 0,
      aboveT |-> FALSE, flagT |-> FALSE, edgeT |-> FALSE, firedT |-> FALSE,
      aboveS |-> FALSE, flagS |-> FALSE, edgeS |-> FALSE, firedS |-> FALSE ]

SustainObsStep(o, before, afterDetect, aboveT, aboveS) ==
    [o EXCEPT !.loops = @ + 1,
              !.toggles = IF aboveT # o.aboveT THEN @ + 1 ELSE @,
              !.aboveT = aboveT, !.aboveS = aboveS,
              !.flagT = before.isSustainedTilt, !.flagS = before.isSustainedSlide,
              !.edgeT = ~before.isSustainedTilt /\ afterDetect.isSustainedTilt,
              !.edgeS = ~before.isSustainedSlide /\ afterDetect.isSustainedSlide,
              !.firedT = o.aboveT /\ (o.firedT \/ o.edgeT),
              !.firedS = o.aboveS /\ (o.firedS \/ o.edgeS)]

SustainTick(d, s, aboveT) ==
    /\ pc = "client"
    /\ obs.loops = 0 => s = Rest      \* the device lies at rest at first
    /\ clock + d <= MaxClock
    /\ obs.loops < MaxLoopsSustain
    /\ aboveT # obs.aboveT => obs.toggles < MaxToggles
    /\ clock' = clock + d
    /\ millis' = UAdd(millis, d)
    /\ UNCHANGED <<sketch, pc, notSustain>>

MD3_TiltAbove(st) ==
    \/ Abs(st.currentRoll_deg - st.prevTiltRoll_deg) > MD3_TILT_THRESHOLD
    \/ Abs(st.currentPitch_deg - st.prevTiltPitch_deg) > MD3_TILT_THRESHOLD
MD3_SlideAbove(st) ==
    LET dx == st.currentAcceleration.ax - st.prevSlideAccelX
        dy == st.currentAcceleration.ay - st.prevSlideAccelY
    IN dx * dx + dy * dy > MD3_SLIDE_THRESHOLD * MD3_SLIDE_THRESHOLD

(* loop() of motion_detection3.ino; its request handler changes no state.  *)
MD3SustainLoop(d, s) ==
    LET read == MD3_processSensorData(md3, s)
        aboveT == ~md3.firstTiltCheck /\ MD3_TiltAbove(read)
        aboveS == ~md3.firstSlideCheck /\ MD3_SlideAbove(read)
        a1 == MD3_telemetry(md3, millis', s)
    IN /\ sketch = "md3"
       /\ SustainTick(d, s, aboveT)
       /\ md3' = MD3_updateSystemIndicatorsAndLogging(a1, millis')
       /\ obs' = SustainObsStep(obs, md3, a1, aboveT, aboveS)
       /\ UNCHANGED <<md1, md4, v4>>

(* loop() of motion_detection.ino (first sketch). *)
MD1SustainLoop(d, s) ==
    LET read == MD1_readTelemetryDataAndAngles(md1, s)
        aboveT == /\ ~md1.firstTiltReading
                  /\ \/ Abs(read.current_roll - md1.prev_roll_tilt)
                            > MD1_TILT_CHANGE_DEGREE_THRESHOLD
                     \/ Abs(read.current_pitch - md1.prev_pitch_tilt)
                            > MD1_TILT_CHANGE_DEGREE_THRESHOLD
        aboveS == /\ ~md1.firstAccelReadingForSlide
                  /\ Abs(s.ax - md1.prev_ax_slide) + Abs(s.ay - md1.prev_ay_slide)
                         > MD1_SLIDE_ACCEL_CHANGE_THRESHOLD
        flags(st) == [isSustainedTilt |-> st.deviceIsTiltingSustained,
                      isSustainedSlide |-> st.deviceIsSlidingSustained]
        a1 == MD1_telemetry(md1, millis', s)
    IN /\ sketch = "md1"
       /\ SustainTick(d, s, aboveT)
       /\ md1' = MD1_loopTail(a1, millis')
       /\ obs' = SustainObsStep(obs, flags(md1), flags(a1), aboveT, aboveS)
       /\ UNCHANGED <<md3, md4, v4>>

(* loop() of Motion_Detection4.ino without a request. *)
MD4Loop(d, s) ==
    LET read == MD4_processSensorData(md4, s)
        aboveT == ~md4.firstTiltCheck /\ MD4_TiltAbove(read)
        aboveS == ~md4.firstSlideCheck /\ MD4_SlideAbove(read)
        a1 == MD4_telemetry(md4, millis', s)
    IN /\ sketch = "md4"
       /\ SustainTick(d, s, aboveT)
       /\ md4' = MD4_updateSystemIndicators(a1, millis')
       /\ obs' = SustainObsStep(obs, md4, a1, aboveT, aboveS)
       /\ UNCHANGED <<md1, md3, v4>>

(* loop() of the v4 sketch; reset: handleClient() serves /resetorientation. *)
V4Loop(d, reset, s) ==
    LET a0 == IF reset THEN V4_handleResetOrientation(v4) ELSE v4
        read == V4_processSensorData(a0, s)
        aboveT == V4_TiltAbove(read)
        aboveS == V4_SlideAbove(read)
        a1 == V4_telemetry(a0, millis', s)
    IN /\ sketch = "v4"
       /\ reset => obs.resets < MaxResets
       /\ SustainTick(d, s, aboveT)
       /\ v4' = V4_updateSystemIndicators(a1, millis')
       /\ obs' = [SustainObsStep(obs, v4, a1, aboveT, aboveS)
                     EXCEPT !.resets = IF reset THEN @ + 1 ELSE @]
       /\ UNCHANGED <<md1, md3, md4>>

InitSustain ==
    /\ sketch \in {"md1", "md3", "md4", "v4"}
    /\ millis = BootMillis
    /\ clock = 0
    /\ pc = "client"
    /\ v5 = V5Globals /\ md1 = MD1Globals /\ md2 = MD2Globals /\ md3 = MD3Globals
    /\ ag = AGGlobals /\ tg = TGGlobals("tg8")
    /\ md4 = MD4Globals /\ v4 = V4Globals /\ ring = RingAbsent
    /\ obs = SustainObs0

NextSustain ==
    \/ \E d \in SustainSteps, s \in SustainSamples : MD1SustainLoop(d, s)
    \/ \E d \in SustainSteps, s \in SustainSamples : MD3SustainLoop(d, s)
    \/ \E d \in SustainSteps, s \in SustainSamples : MD4Loop(d, s)
    \/ \E d \in SustainSteps, reset \in BOOLEAN, s \in SustainSamples : V4Loop(d, reset, s)

SpecSustain == InitSustain /\ [][NextSustain]_vars

(* C23: in motion_detection3 and Motion_Detection4 a detector fires once   *)
(* per continuous excursion: while its deviation has been above threshold  *)
(* at every tick since a rising edge, no tick is a further rising edge.    *)
C23_OneEdgePerExcursion ==
    (sketch \in {"md3", "md4"})
    => /\ ~(obs.aboveT /\ obs.firedT /\ obs.edgeT)
       /\ ~(obs.aboveS /\ obs.firedS /\ obs.edgeS)

(* C24: in Motion_Detection4 and v4, after a tick at which the deviation   *)
(* of a detector whose flag was set is at or below the threshold, the      *)
(* detector is idle: flag false and timer cleared.                         *)
C24_IdleAfterFall ==
    /\ (sketch = "md4" /\ obs.flagT /\ ~obs.aboveT /\ obs.loops > 0)
          => (~md4.isSustainedTilt /\ md4.sustainedTiltStartTime_ms = 0)
    /\ (sketch = "md4" /\ obs.flagS /\ ~obs.aboveS /\ obs.loops > 0)
          => (~md4.isSustainedSlide /\ md4.sustainedSlideStartTime_ms = 0)
    /\ (sketch = "v4" /\ obs.flagT /\ ~obs.aboveT /\ obs.loops > 0)
          => (~v4.isSustainedTilt /\ v4.sustainedTiltStartTime_ms = 0)
    /\ (sketch = "v4" /\ obs.flagS /\ ~obs.aboveS /\ obs.loops > 0)
          => (~v4.isSustainedSlide /\ v4.sustainedSlideStartTime_ms = 0)
-----------------------------------------------------------------------------
(* The /updatesetting handler of Motion_Detection4.ino.  A behaviour       *)
(* starts after earlier requests have left each setting at its default or  *)
(* at one of its bounds.                                                   *)

MaxSettingRequests == 3
SettingParams == {"tilt_thresh", "tilt_dur", "slide_thresh", "slide_dur", "tilt", ""}
SettingActions == {"inc", "dec", "reset", ""}

MD4_Settings(st) ==
    <<st.currentTiltThresholdDegrees, st.currentSustainedTiltDurationMs,
      st.currentSlideThresholdAccel, st.currentSustainedSlideDurationMs>>

MD4SettingObs0 == [reqs |-> 0, param |-> "none", action |-> "none", before |-> <<0, 0, 0, 0>>]

MD4HandleUpdateSetting(param, action) ==
    /\ sketch = "md4" /\ pc = "client"
    /\ obs.reqs < MaxSettingRequests
    /\ md4' = MD4_handleUpdateSetting(md4, param, action)
    /\ obs' = [reqs |-> obs.reqs + 1, param |-> param, action |-> action,
               before |-> MD4_Settings(md4)]
    /\ UNCHANGED <<sketch, millis, clock, pc, md1, md3, v4, notSustain>>

InitMD4Settings ==
    /\ sketch = "md4"
    /\ millis = BootMillis
    /\ clock = 0
    /\ pc = "client"
    /\ v5 = V5Globals /\ md1 = MD1Globals /\ md2 = MD2Globals /\ md3 = MD3Globals
    /\ ag = AGGlobals /\ tg = TGGlobals("tg8") /\ v4 = V4Globals /\ ring = RingAbsent
    /\ \E tt \in {MD4_TiltThresholdMin, MD4_DEFAULT_TILT_THRESHOLD_DEGREES, MD4_TiltThresholdMax},
          td \in {MD4_DurationMin, MD4_DEFAULT_SUSTAINED_TILT_DURATION_MS, MD4_DurationMax},
          sl \in {MD4_SlideThresholdMin, MD4_DEFAULT_SLIDE_THRESHOLD_ACCEL, MD4_SlideThresholdMax},
          sd \in {MD4_DurationMin, MD4_DEFAULT_SUSTAINED_SLIDE_DURATION_MS, MD4_DurationMax} :
          md4 = [MD4Globals EXCEPT !.currentTiltThresholdDegrees = tt,
                                   !.currentSustainedTiltDurationMs = td,
                                   !.currentSlideThresholdAccel = sl,
                                   !.currentSustainedSlideDurationMs = sd]
    /\ obs = MD4SettingObs0

NextMD4Settings ==
    \E param \in SettingParams, action \in SettingActions : MD4HandleUpdateSetting(param, action)

SpecMD4Settings == InitMD4Settings /\ [][NextMD4Settings]_vars

MD4_SettingsInRange(st) ==
    /\ st.currentTiltThresholdDegrees >= MD4_TiltThresholdMin
    /\ st.currentTiltThresholdDegrees <= MD4_TiltThresholdMax
    /\ st.currentSlideThresholdAccel >= MD4_SlideThresholdMin
    /\ st.currentSlideThresholdAccel <= MD4_SlideThresholdMax
    /\ st.currentSustainedTiltDurationMs >= MD4_DurationMin
    /\ st.currentSustainedTiltDurationMs <= MD4_DurationMax
    /\ st.currentSustainedSlideDurationMs >= MD4_DurationMin
    /\ st.currentSustainedSlideDurationMs <= MD4_DurationMax

(* C30: every /updatesetting request leaves the four settings inside their *)
(* ranges; "inc" at the upper bound and "dec" at the lower bound leave the *)
(* value at the bound; an unknown param or action changes no setting.      *)
C30_SettingsStayInRange ==
    [][ (sketch = "md4" /\ obs'.reqs = obs.reqs + 1)
        => LET old == MD4_Settings(md4)
               new == MD4_Settings(md4')
               lo == <<MD4_TiltThresholdMin, MD4_DurationMin,
                       MD4_SlideThresholdMin, MD4_DurationMin>>
               hi == <<MD4_TiltThresholdMax, MD4_DurationMax,
                       MD4_SlideThresholdMax, MD4_DurationMax>>
               known == {"tilt_thresh", "tilt_dur", "slide_thresh", "slide_dur"}
           IN /\ MD4_SettingsInRange(md4')
              /\ \A i \in 1 .. 4 :
                    /\ (obs'.action = "inc" /\ old[i] = hi[i]) => new[i] = hi[i]
                    /\ (obs'.action = "dec" /\ old[i] = lo[i]) => new[i] = lo[i]
              /\ (obs'.param \notin known \/ obs'.action \notin {"inc", "dec"})
                    => new = old ]_vars

(* A duration at its upper bound was asked to grow and is still there, and *)
(* a request with an unknown action has been served.                       *)
C30_Witness ==
    /\ sketch = "md4" /\ obs.reqs >= 2
    /\ obs.param = "tilt_dur" /\ obs.action = "inc"
    /\ obs.before[2] = MD4_DurationMax
    /\ md4.currentSustainedTiltDurationMs = MD4_DurationMax
    /\ md4.currentTiltThresholdDegrees = MD4_TiltThresholdMin

(* C25: the automatic disarm on timer expiry leaves the state an explicit  *)
(* disarm command served at that instant would leave: systemArmed, the     *)
(* three sustained flags, lastMotionType, lastMotionTimestamp_ms and       *)
(* timeRemaining_s.                                                        *)
C25_ExpiryDisarmsAsCommand ==
    [][ (sketch = "v5" /\ pc = "body" /\ v5.systemArmed /\ ~v5'.systemArmed)
        => LET asCommand == V5_handleDisarmSystem(v5)
           IN \A f \in {"systemArmed", "isSustainedTilt", "isSustainedSlide",
                        "isSustainedLift", "lastMotionType", "lastMotionTimestamp_ms",
                        "timeRemaining_s"} : v5'[f] = asCommand[f] ]_vars

(* C26: in the scenario the sustained motion ends at the tick at clock     *)
(* ExcursionStart + ExcursionLength (all three flags false from then on);  *)
(* while armed the alert indicator is active at the end of every loop      *)
(* iteration less than V5_WEB_MOTION_INDICATOR_DURATION_MS after that      *)
(* moment, and quiet from then on.                                         *)
C26_WindowFromMotionStop ==
    (sketch = "v5" /\ pc = "client" /\ v5.systemArmed
        /\ clock >= ExcursionStart + ExcursionLength)
    => (v5.webShowsMotionActive
          <=> clock - (ExcursionStart + ExcursionLength) < V5_WEB_MOTION_INDICATOR_DURATION_MS)

(* C27: in motion_detection.ino the alert indicator is on at the end of    *)
(* every loop iteration at which a detector is sustained.                  *)
C27_IndicatorOnWhileSustained ==
    (sketch = "md1" /\ obs.loops > 0
        /\ (md1.deviceIsTiltingSustained \/ md1.deviceIsSlidingSustained))
    => md1.webPageShowsMotion

(* C28: every evaluation of the slow-move detector with an established     *)
(* baseline whose smoothed deviation is within SLOW_MOVE_THRESHOLD_G       *)
(* blends the baseline: new = 0.95 * old + 0.05 * current smoothed         *)
(* magnitude.                                                              *)
C28_DriftCorrectionEveryEvaluation ==
    [][ (sketch = "ag" /\ pc = "body" /\ ag.g_baselineEstablished /\ obs'.checked
            /\ obs'.diff <= SLOW_MOVE_THRESHOLD_G)
        => LET currentSmoothedMagnitude ==
                   AG_sumSamples(ag'.g_accelMagnitudeSamples, 0) \div SLOW_MOVE_SAMPLE_COUNT
           IN ag'.g_accelBaselineMagnitude
                  = (ag.g_accelBaselineMagnitude * 95 + currentSmoothedMagnitude * 5) \div 100
      ]_vars

(* The slow-move detector under drift: the device at rest reads now and    *)
(* then 2 % more (a deviation the detector tolerates).                     *)
DriftPose == Sample(0, 0, 1001, 0)
AuraDriftSamples == {Rest, DriftPose}

NextAuraDrift ==
    \/ \E d \in AuraSteps : AGNoRequest(d, MaxLoopsSlow)
    \/ \E d \in AuraSteps, hasArg \in BOOLEAN, reqArmState \in BOOLEAN :
          AGHttpArmCommand(d, MaxLoopsSlow, hasArg, reqArmState)
    \/ \E s \in AuraDriftSamples : AGLoop(FALSE, s)

SpecAuraDrift == InitAuraSlow /\ [][NextAuraDrift]_vars

(* C31: in Tap-Guard v8 every step leaves the GUI level in 1..10 and the   *)
(* MPU threshold at thrVal() of the level, a value in 1..80; thrVal() maps *)
(* level 1 to 80, level 4 to 2 and levels 5..10 to 1 and never grows with  *)
(* the level, so a step that does not lower the level does not raise the   *)
(* threshold.                                                              *)
C31_LevelAndThresholdInRange ==
    [][ (sketch = "tg8")
        => /\ tg'.level \in 1 .. 10
           /\ tg'.threshold = TG_thrVal("tg8", tg'.level)
           /\ tg'.threshold \in 1 .. 80
           /\ tg'.level >= tg.level => tg'.threshold <= tg.threshold
           /\ TG_thrVal("tg8", 1) = 80 /\ TG_thrVal("tg8", 4) = 2
           /\ \A l \in 5 .. 10 : TG_thrVal("tg8", l) = 1
           /\ \A l \in 1 .. 9 : TG_thrVal("tg8", l + 1) <= TG_thrVal("tg8", l) ]_vars

(* A /sens request served after the first loop iteration has set level 4. *)
C31_Witness ==
    /\ sketch = "tg8" /\ pc = "body" /\ obs.lastReq = "sens" /\ obs.loops >= 2
    /\ tg.level = 4 /\ tg.threshold = 2
-----------------------------------------------------------------------------
(* The ring-buffer Tap-Guard sketches as a process: handleClient() serves  *)
(* at most one request, then the rest of loop() runs.  time(nullptr) is    *)
(* the seconds since power-up before the first NTP answer and the epoch    *)
(* time after it; it is at least 1 once WiFi is connected.  The n-th       *)
(* motion event since boot reads the acceleration ax = n.                  *)

MaxLoopsRing == 4
RingSteps == {700}
RingEpochs == {3, 1762000000}
RingVals == {<<"0", ".", "5">>, << >>}

RingObs0(n, epoch) ==
    [ loops |-> 0, lastReq |-> "none",
      int |-> FALSE,      \* the last loop() read a pending motion interrupt
      total |-> n,        \* motion events since boot
      k |-> n,            \* motion events since boot or the last /reset
      epoch |-> epoch ]   \* time(nullptr) of the initial state

RingNow == obs.epoch + clock \div 1000

(* The state n motion events after setup(), the LED timed out again. *)
Ring_afterEvents(v, n, epoch) ==
    [Ring_setup(v) EXCEPT
        !.ev = [i \in 0 .. (Ring_capacity(v) - 1) |->
                   IF i < n THEN Ev(epoch, RingReading(i + 1)) ELSE EvZero],
        !.head = n - 1]

RingTick(d) ==
    /\ sketch \in {"alpha", "alpha2"} /\ pc = "client"
    /\ clock + d <= MaxClock
    /\ obs.loops < MaxLoopsRing
    /\ clock' = clock + d
    /\ millis' = UAdd(millis, d)
    /\ pc' = "body"
    /\ UNCHANGED <<sketch, notRing>>

RingNoRequest(d) ==
    /\ RingTick(d)
    /\ ring' = ring
    /\ obs' = [obs EXCEPT !.loops = @ + 1, !.lastReq = "none"]

RingState(d) ==
    /\ RingTick(d)
    /\ ring' = ring
    /\ obs' = [obs EXCEPT !.loops = @ + 1, !.lastReq = "state"]

RingLog(d) ==
    /\ RingTick(d)
    /\ ring' = ring
    /\ obs' = [obs EXCEPT !.loops = @ + 1, !.lastReq = "log"]

RingSens(d, val) ==
    /\ RingTick(d)
    /\ ring' = Ring_hSens(sketch, ring, val)
    /\ obs' = [obs EXCEPT !.loops = @ + 1, !.lastReq = "sens"]

RingReset(d) ==
    /\ RingTick(d)
    /\ ring' = Ring_hReset(sketch, ring)
    /\ obs' = [obs EXCEPT !.loops = @ + 1, !.lastReq = "reset", !.k = 0]

RingLoop(int) ==
    /\ sketch \in {"alpha", "alpha2"} /\ pc = "body"
    /\ ring' = Ring_loopBody(sketch, ring, millis, RingNow, int, RingReading(obs.total + 1))
    /\ obs' = [obs EXCEPT !.int = int,
                          !.total = IF int THEN @ + 1 ELSE @,
                          !.k = IF int THEN @ + 1 ELSE @]
    /\ pc' = "client"
    /\ UNCHANGED <<sketch, millis, clock, notRing>>

InitRing ==
    /\ sketch \in {"alpha", "alpha2"}
    /\ millis = BootMillis
    /\ clock = 0
    /\ pc = "client"
    /\ v5 = V5Globals /\ md1 = MD1Globals /\ md2 = MD2Globals /\ md3 = MD3Globals
    /\ ag = AGGlobals /\ tg = TGGlobals("tg8") /\ md4 = MD4Globals /\ v4 = V4Globals
    /\ \E n \in {0, Ring_capacity(sketch) - 1}, epoch \in RingEpochs :
          /\ ring = Ring_afterEvents(sketch, n, epoch)
          /\ obs = RingObs0(n, epoch)

NextRing ==
    \/ \E d \in RingSteps : RingNoRequest(d)
    \/ \E d \in RingSteps : RingState(d)
    \/ \E d \in RingSteps : RingLog(d)
    \/ \E d \in RingSteps, val \in RingVals : RingSens(d, val)
    \/ \E d \in RingSteps : RingReset(d)
    \/ \E int \in BOOLEAN : RingLoop(int)

SpecRing == InitRing /\ [][NextRing]_vars

(* The events the table of the v6 dashboard shows, top row first, after a  *)
(* poll of /log: the ax column of each row.                                *)
RingTable ==
    LET tb == Ring_tick(Ring_hLog(sketch, ring))
    IN [i \in DOMAIN tb |-> tb[i][3].v]

(* C32: after a poll of the v6 dashboard the first row of the event table  *)
(* is the most recently recorded event.                                    *)
C32_NewestEventOnTop ==
    (sketch = "alpha2" /\ pc = "body" /\ obs.lastReq = "log" /\ obs.k >= 1)
        => LET tb == RingTable
           IN tb # << >> /\ tb[1] = obs.total

(* The data rows of /log, first row first: the ax column of each row. *)
RingRows(st) ==
    LET csv == Ring_hLog(sketch, st)
    IN [i \in 1 .. (Len(csv) - 1) |-> csv[i + 1][3].v]

(* C33: after k motion events since boot or the last /reset, /log holds    *)
(* min(k, capacity) data rows, one per most recent event, newest first;    *)
(* head stays in -1 .. capacity-1; the event that follows a full buffer    *)
(* overwrites exactly the oldest slot.                                     *)
C33_RingBufferLog ==
    [][ (sketch \in {"alpha", "alpha2"})
        => LET cap == Ring_capacity(sketch)
               n == IF obs'.k < cap THEN obs'.k ELSE cap
               oldest == (ring.head + 1) % cap
           IN /\ ring'.head \in (0 - 1) .. (cap - 1)
              /\ RingRows(ring') = [i \in 1 .. n |-> obs'.total - (i - 1)]
              /\ (pc = "body" /\ obs'.int /\ obs.k >= cap)
                    => /\ ring.ev[oldest].ax = obs.total - (cap - 1)
                       /\ ring'.ev[oldest].ax = obs'.total
                       /\ ring'.ev = [ring.ev EXCEPT ![oldest] = ring'.ev[oldest]]
      ]_vars

(* The event after a full buffer has been recorded and /log polled. *)
C33_Witness ==
    /\ sketch \in {"alpha", "alpha2"} /\ pc = "body" /\ obs.lastReq = "log"
    /\ obs.k = Ring_capacity(sketch) + 1 /\ ring.head = 0
    /\ Len(Ring_hLog(sketch, ring)) = Ring_capacity(sketch) + 1

(* C34: a request AuraGuard answers with status 400 (/arm without 'state', *)
(* /resetlog while disarmed) leaves the armed flag, the event log and its  *)
(* count, g_motionEventForWebUI and the baseline and detector state        *)
(* unchanged.                                                              *)
C34_RejectedRequestChangesNothing ==
    [][ (sketch = "ag" /\ pc = "client" /\ obs'.status = 400) => ag' = ag ]_vars

(* /resetlog has been rejected while disarmed with entries in the log. *)
C34_Witness ==
    /\ sketch = "ag" /\ pc = "body" /\ obs.status = 400
    /\ obs.lastReq = "resetlog" /\ ag.g_motionLogCount > 0
    /\ ~ag.g_isSystemArmed

(* The slow-move detector on a device that lies still from boot: every     *)
(* read gives the same magnitude, the MPU raises no interrupt, arm and     *)
(* disarm commands are the only requests.                                  *)
MaxLoopsStill == 14

NextAuraStill ==
    \/ \E d \in AuraSteps : AGNoRequest(d, MaxLoopsStill)
    \/ \E d \in AuraSteps, hasArg \in BOOLEAN, reqArmState \in BOOLEAN :
          AGHttpArmCommand(d, MaxLoopsStill, hasArg, reqArmState)
    \/ AGLoop(FALSE, Rest)

SpecAuraStill == InitAuraSlow /\ [][NextAuraStill]_vars

(* C35: a device that is stationary from boot never produces a software    *)
(* slow-move detection: no loop iteration reports a slow move, appends to  *)
(* the log, sets g_motionEventForWebUI or turns the LED on, whenever and   *)
(* however often the system is armed or disarmed.                          *)
C35_StationaryNeverSlowMove ==
    [][ (sketch = "ag" /\ pc = "body")
        => /\ ~obs'.slow /\ ~obs'.motion
           /\ ag'.g_motionLogCount = ag.g_motionLogCount
           /\ ag'.g_motionLog = ag.g_motionLog
           /\ ag'.g_motionEventForWebUI = ag.g_motionEventForWebUI
           /\ ag'.statusLed # "HIGH" ]_vars

(* C36: at the end of every loop iteration of the v5 sketch                *)
(* timeRemaining_s is in 0 .. ARMED_DURATION_MS / 1000, it is 0 whenever   *)
(* the system is disarmed, and during an armed session it never increases  *)
(* except at an arm command.                                               *)
C36_TimeRemainingBounded ==
    [][ (sketch = "v5" /\ pc = "body")
        => /\ v5'.timeRemaining_s \in 0 .. (ARMED_DURATION_MS \div 1000)
           /\ ~v5'.systemArmed => v5'.timeRemaining_s = 0
           /\ (v5.systemArmed /\ v5'.systemArmed)
                 => v5'.timeRemaining_s <= v5.timeRemaining_s ]_vars

(* C37: g_motionLogCount stays in 0 .. MAX_MOTION_LOG_ENTRIES and every    *)
(* write to g_motionLog goes to an index in 0 .. MAX_MOTION_LOG_ENTRIES-1  *)
(* (the slot g_motionLogCount names before the write), after any sequence  *)
(* of motion events, arm, disarm, /resetlog and /state requests.           *)
C37_LogIndexInBounds ==
    [][ (sketch = "ag")
        => /\ ag'.g_motionLogCount \in 0 .. AG_MAX_MOTION_LOG_ENTRIES
           /\ DOMAIN ag'.g_motionLog = 0 .. (AG_MAX_MOTION_LOG_ENTRIES - 1)
           /\ ag'.g_motionLogCount > ag.g_motionLogCount
                 => /\ ag.g_motionLogCount \in 0 .. (AG_MAX_MOTION_LOG_ENTRIES - 1)
                    /\ ag'.g_motionLogCount = ag.g_motionLogCount + 1
           /\ ag'.g_motionLog # ag.g_motionLog
                 => /\ ag.g_motionLogCount \in 0 .. (AG_MAX_MOTION_LOG_ENTRIES - 1)
                    /\ ag'.g_motionLog =
                          [ag.g_motionLog EXCEPT ![ag.g_motionLogCount] =
                                                     ag'.g_motionLog[ag.g_motionLogCount]]
      ]_vars

(* Motion has been detected while armed with the log already full. *)
C37_Witness ==
    /\ sketch = "ag" /\ pc = "client" /\ ag.g_isSystemArmed
    /\ ag.g_motionLogCount = AG_MAX_MOTION_LOG_ENTRIES
    /\ obs.motion /\ obs.jolts >= 2
    /\ ag.g_motionLog[AG_MAX_MOTION_LOG_ENTRIES - 1] # EmptyString
=============================================================================
